---- MODULE Spec2Model ----
(***************************************************************************)
(* Model of the SEC filing packager: the filing selector                   *)
(* (pickFilingsPackWithReasons, lib/sec), the exhibit classifiers and the  *)
(* pack-building request handler (api/pack GET).                           *)
(*                                                                         *)
(* Strings the code inspects character by character (form codes, exhibit   *)
(* types) are sequences of one-character strings, so that trim,            *)
(* toUpperCase, startsWith and the regular expressions are computed.       *)
(* Instants are counted in ticks, TicksPerDay ticks to a day; a Date is    *)
(* <<t>> for a valid instant t and << >> for an Invalid Date (NaN).        *)
(***************************************************************************)
EXTENDS Integers, Sequences, FiniteSets, TLC

\* ------------------------------------------------------------------ bounds
\* longest filing history drawn for the selector
MaxFilings == 3
\* filing dates and as-of dates are the days 0..MaxDay
MaxDay == 3
\* resolution of the clock: ticks per day (the code: 86,400,000 ms)
TicksPerDay == 2

\* ----------------------------------------------------------- string helpers
LowerCase == <<"a","b","c","d","e","f","g","h","i","j","k","l","m",
               "n","o","p","q","r","s","t","u","v","w","x","y","z">>
UpperCase == <<"A","B","C","D","E","F","G","H","I","J","K","L","M",
               "N","O","P","Q","R","S","T","U","V","W","X","Y","Z">>
Digits == {"0","1","2","3","4","5","6","7","8","9"}

\* String.prototype.toUpperCase on one character
UpperOf == [i \in 1..26 |-> UpperCase[i]]
LowerSet == {LowerCase[i] : i \in 1..26}
LetterSet == LowerSet \cup {UpperCase[i] : i \in 1..26}
UpperMap == [c \in LowerSet |-> UpperOf[CHOOSE i \in 1..26 : LowerCase[i] = c]]

UpperChar(c) == IF c \in LowerSet THEN UpperMap[c] ELSE c

toUpperCase(s) == [i \in 1..Len(s) |-> UpperChar(s[i])]

\* String.prototype.trim: leading and trailing white space removed
trim(s) ==
  LET nonWs == {i \in 1..Len(s) : s[i] # " "}
  IN  IF nonWs = {} THEN << >>
      ELSE LET lo == CHOOSE i \in nonWs : \A j \in nonWs : i <= j
               hi == CHOOSE i \in nonWs : \A j \in nonWs : i >= j
           IN  SubSeq(s, lo, hi)

\* String.prototype.startsWith
startsWith(s, p) == Len(s) >= Len(p) /\ SubSeq(s, 1, Len(p)) = p

\* a regular-expression word character (\w)
IsWordChar(c) == c \in Digits \/ c = "_" \/ c \in LetterSet

\* the pattern /^EX-(a1|a2|...)\b/i on s: some alternative follows "EX-"
\* and ends at a word boundary
MatchesExPrefix(s, alts) ==
  LET u == toUpperCase(s)
  IN  \E a \in alts :
        LET p == <<"E","X","-">> \o a
        IN  /\ startsWith(u, p)
            /\ (Len(u) = Len(p) \/ ~IsWordChar(u[Len(p) + 1]))

\* ------------------------------------------------------------- form codes
normForm(form) == toUpperCase(trim(form))

isS3(form) ==
  LET f == normForm(form)
  IN  \/ f = <<"S","-","3">>
      \/ f = <<"S","-","3","/","A">>
      \/ f = <<"S","-","3","M","E","F">>
      \/ f = <<"S","-","3","A","S","R">>

isProxy(form) ==
  LET f == normForm(form)
  IN  \/ f = <<"D","E","F"," ","1","4","A">>
      \/ f = <<"D","E","F","A","1","4","A">>
      \/ f = <<"D","E","F"," ","1","4","C">>
      \/ f = <<"P","R","E"," ","1","4","C">>

isProspectus(form) ==
  LET f == normForm(form)
  IN  \/ startsWith(f, <<"4","2","4","B">>)
      \/ f = <<"4","2","4","B","5">>
      \/ f = <<"4","2","4","B","3">>
      \/ f = <<"4","2","4","B","2">>

F10K == <<"1","0","-","K">>
F10Q == <<"1","0","-","Q">>
F8K == <<"8","-","K">>
FEFFECT == <<"E","F","F","E","C","T">>
FS8 == <<"S","-","8">>
F4 == <<"4">>

\* ------------------------------------------------------------------ dates
\* new Date("YYYY-MM-DD") for the calendar day `day`: midnight UTC of that day
ParseDate(day) == <<day * TicksPerDay>>

\* the as-of argument: absent (undefined or ""), a calendar date string, or
\* a string new Date() cannot parse
NoAsOf == [kind |-> "none", day |-> 0]
AsOfDay(d) == [kind |-> "date", day |-> d]
BadAsOf == [kind |-> "invalid", day |-> 0]

\* asOf ? new Date(asOf) : new Date()
AsOfDateOf(asOf, clock) ==
  CASE asOf.kind = "none" -> <<clock>>
    [] asOf.kind = "date" -> ParseDate(asOf.day)
    [] OTHER -> << >>

\* new Date(asOfDate.getTime() - daysBack * 24 * 60 * 60 * 1000)
CutoffOf(asOfDate, daysBack) ==
  IF asOfDate = << >> THEN << >> ELSE <<asOfDate[1] - daysBack * TicksPerDay>>

\* a <= b on Dates: false when either is an Invalid Date
DateLeq(a, b) == a # << >> /\ b # << >> /\ a[1] <= b[1]

\* --------------------------------------------------------------- selector
Filing(form, acc, day) ==
  [form |-> form, accessionNumber |-> acc, filingDate |-> day,
   primaryDocument |-> "primary.htm"]

Reason(text, n) == [text |-> text, n |-> n]

Selected(f, reason) == [filing |-> f, reason |-> reason]

\* onOrBefore with the as-of day taken to end a day late (off by one day)
onOrBefore_LateByOneDay(f, asOfDate) == DateLeq(ParseDate(f.filingDate - 1), asOfDate)

\* the helper onOrBefore of pickFilingsPackWithReasons
onOrBefore(f, asOfDate) == DateLeq(ParseDate(f.filingDate), asOfDate)

\* withinWindow with the lower end of the window excluded (d > cutoff)
withinWindow_OpenLowerEnd(f, cutoff, asOfDate) ==
  LET d == ParseDate(f.filingDate)
  IN  DateLeq(cutoff, d) /\ cutoff # d /\ DateLeq(d, asOfDate)

\* the helper withinWindow of pickFilingsPackWithReasons
withinWindow(f, cutoff, asOfDate) ==
  LET d == ParseDate(f.filingDate)
  IN  DateLeq(cutoff, d) /\ DateLeq(d, asOfDate)

\* Array.prototype.filter with a Set of the accession numbers seen so far
RECURSIVE DedupFrom(_, _)
DedupFrom(sel, seen) ==
  IF sel = << >> THEN << >>
  ELSE LET acc == Head(sel).filing.accessionNumber
       IN  IF acc \in seen
             THEN DedupFrom(Tail(sel), seen)
             ELSE <<Head(sel)>> \o DedupFrom(Tail(sel), seen \cup {acc})

\* the selection returned without the final filter on accession numbers
DedupByAccession_Omitted(sel) == sel

\* the final filter keeping the last entry of an accession number, not the first
DedupByAccession_LastWins(sel) ==
  LET rev(s) == [i \in 1..Len(s) |-> s[Len(s) + 1 - i]]
  IN  rev(DedupFrom(rev(sel), {}))

DedupByAccession(sel) == DedupFrom(sel, {})

\* find() returning the last match (the oldest filing), not the first
FirstOf_Oldest(hits) == IF hits = << >> THEN << >> ELSE <<hits[Len(hits)]>>

\* Array.prototype.find on the list of matches: a list of at most one element
FirstOf(hits) == IF hits = << >> THEN << >> ELSE <<Head(hits)>>

\* .slice(0, n)
Slice0(s, n) == SubSeq(s, 1, IF Len(s) < n THEN Len(s) ELSE n)

pickFilingsPackWithReasons(hist, days, asOfArg, clock) ==
  LET asOfDate == AsOfDateOf(asOfArg, clock)
      cutoff == CutoffOf(asOfDate, days)
      eligible == SelectSeq(hist, LAMBDA f : onOrBefore(f, asOfDate))
      tag(fs, text, n) == [i \in 1..Len(fs) |-> Selected(fs[i], Reason(text, n))]
      latest10k == FirstOf(SelectSeq(eligible, LAMBDA f : normForm(f.form) = F10K))
      tenQs == Slice0(SelectSeq(eligible, LAMBDA f : normForm(f.form) = F10Q), 2)
      eightKs == SelectSeq(eligible,
                   LAMBDA f : normForm(f.form) = F8K /\ withinWindow(f, cutoff, asOfDate))
      latestS3 == FirstOf(SelectSeq(eligible, LAMBDA f : isS3(f.form)))
      latestProspectus == FirstOf(SelectSeq(eligible, LAMBDA f : isProspectus(f.form)))
      latestEffect == FirstOf(SelectSeq(eligible, LAMBDA f : normForm(f.form) = FEFFECT))
      latestProxy == FirstOf(SelectSeq(eligible, LAMBDA f : isProxy(f.form)))
      latestS8 == FirstOf(SelectSeq(eligible, LAMBDA f : normForm(f.form) = FS8))
      form4s == SelectSeq(eligible,
                   LAMBDA f : normForm(f.form) = F4 /\ withinWindow(f, cutoff, asOfDate))
      sel == tag(latest10k, "latest 10-K", 0)
             \o [i \in 1..Len(tenQs) |-> Selected(tenQs[i], Reason("10-Q (top 2) #", i))]
             \o tag(eightKs, "8-K within d", days)
             \o tag(latestS3, "latest S-3/S-3A", 0)
             \o tag(latestProspectus, "latest 424B*", 0)
             \o tag(latestEffect, "latest EFFECT", 0)
             \o tag(latestProxy, "latest Proxy", 0)
             \o tag(latestS8, "latest S-8", 0)
             \o tag(form4s, "Form 4 within d", days)
  IN  DedupByAccession(sel)

\* ------------------------------------------------- retrieval of the history
\* a submissions document: the columns of filings.recent as rows (an empty
\* column value is << >>, 0, -1 or ""), and the entries of filings.files
SubmissionsRow(form, acc, day, doc) ==
  [form |-> form, accessionNumber |-> acc, filingDate |-> day, primaryDocument |-> doc]

\* an entry of filings.files with what the registry answers for it: status
\* of the response and, when it is OK, the rows of the older document
SubmissionsFileEntry(name, status, rows) == [name |-> name, status |-> status, recent |-> rows]

SubmissionsJson(recent, files) == [recent |-> recent, files |-> files]

\* if (!forms[i] || !accession[i] || !dates[i] || !docs[i]) continue
HasAllFields(row) ==
  /\ row.form # << >>
  /\ row.accessionNumber # 0
  /\ row.filingDate # -1
  /\ row.primaryDocument # ""

toFilingsFromRecent(recent) == SelectSeq(recent, HasAllFields)

\* the comparator with the order of the dates inverted (oldest first)
ByFilingDate_OldestFirst(a, b) == IF a.filingDate > b.filingDate THEN 1 ELSE -1

\* the comparator of both sorts: (a, b) => (a.filingDate < b.filingDate ? 1 : -1)
ByFilingDate(a, b) == IF a.filingDate < b.filingDate THEN 1 ELSE -1

\* Array.prototype.sort of the runtime (V8) on a short array: the run at the
\* start of the array is found (and reversed when the comparator is negative
\* along it), then the other elements are put in place by binary insertion.
\* The comparator never answers 0, so the sort is computed as the runtime
\* runs it and not as a sort by a total order.
RECURSIVE RunEnd(_, _, _)
RunEnd(s, k, descending) ==
  IF k = Len(s) THEN k
  ELSE LET order == ByFilingDate(s[k + 1], s[k])
       IN  IF (descending /\ order >= 0) \/ (~descending /\ order < 0)
             THEN k
             ELSE RunEnd(s, k + 1, descending)

CountAndMakeRun(s) ==
  IF Len(s) < 2 THEN [n |-> Len(s), a |-> s]
  ELSE LET descending == ByFilingDate(s[2], s[1]) < 0
           n == RunEnd(s, 2, descending)
       IN  [n |-> n,
            a |-> IF descending
                    THEN [k \in 1..Len(s) |-> IF k <= n THEN s[n + 1 - k] ELSE s[k]]
                    ELSE s]

RECURSIVE InsertionPoint(_, _, _, _)
InsertionPoint(s, pivot, left, right) ==
  IF left >= right THEN left
  ELSE LET mid == left + ((right - left) \div 2)
       IN  IF ByFilingDate(pivot, s[mid]) < 0
             THEN InsertionPoint(s, pivot, left, mid)
             ELSE InsertionPoint(s, pivot, mid + 1, right)

RECURSIVE BinaryInsertionSort(_, _)
BinaryInsertionSort(s, start) ==
  IF start > Len(s) THEN s
  ELSE LET pivot == s[start]
           at == InsertionPoint(s, pivot, 1, start)
           moved == [k \in 1..Len(s) |->
                       IF k < at THEN s[k]
                       ELSE IF k = at THEN pivot
                       ELSE IF k <= start THEN s[k - 1]
                       ELSE s[k]]
       IN  BinaryInsertionSort(moved, start + 1)

SortByFilingDate(s) ==
  LET run == CountAndMakeRun(s) IN BinaryInsertionSort(run.a, run.n + 1)

getRecentFilings(json) == SortByFilingDate(toFilingsFromRecent(json.recent))

\* the older documents that are read: the entry has a name and the response is OK
IsRetrieved(f) == f.name # "" /\ f.status \in 200..299

\* merged: the rows of filings.recent, then those of each older document read
RECURSIVE MergeOlder(_)
MergeOlder(files) ==
  IF files = << >> THEN << >>
  ELSE (IF IsRetrieved(Head(files)) THEN toFilingsFromRecent(Head(files).recent) ELSE << >>)
       \o MergeOlder(Tail(files))

\* merged.filter with the Set `seen` of accession numbers
RECURSIVE UniqFrom(_, _)
UniqFrom(merged, seen) ==
  IF merged = << >> THEN << >>
  ELSE IF Head(merged).accessionNumber \in seen
    THEN UniqFrom(Tail(merged), seen)
    ELSE <<Head(merged)>> \o UniqFrom(Tail(merged), seen \cup {Head(merged).accessionNumber})

getAllFilingsOptionB(json) ==
  LET merged == toFilingsFromRecent(json.recent) \o MergeOlder(json.files)
      uniq == UniqFrom(merged, {})
  IN  SortByFilingDate(uniq)

\* what getAllFilingsOptionB writes to the console (line 210): the names of
\* the older documents whose response was not OK
FailedOlderIndexes(json) ==
  LET failed == SelectSeq(json.files, LAMBDA f : f.name # "" /\ ~IsRetrieved(f))
  IN  [k \in 1..Len(failed) |-> failed[k].name]

\* --------------------------------------------------------------- exhibits
\* /^EX-(10|4|99|2|16|3|1|5|23|24)\b/i on the trimmed, upper-cased type
HighSignalAlternatives ==
  { <<"1","0">>, <<"4">>, <<"9","9">>, <<"2">>, <<"1","6">>, <<"3">>, <<"1">>,
    <<"5">>, <<"2","3">>, <<"2","4">> }

\* the pattern without its \b: any type that begins with an alternative
isHighSignalExhibitType_NoBoundary(type) ==
  \E a \in HighSignalAlternatives :
    startsWith(toUpperCase(trim(type)), <<"E","X","-">> \o a)

isHighSignalExhibitType(type) ==
  MatchesExPrefix(toUpperCase(trim(type)), HighSignalAlternatives)

\* the denylist with EX-104 forgotten
isJunkType_Only101(type) == MatchesExPrefix(trim(type), { <<"1","0","1">> })

\* /^EX-(101|104)\b/i on the trimmed type
isJunkType(type) == MatchesExPrefix(trim(type), { <<"1","0","1">>, <<"1","0","4">> })

\* the size column of an index row: a number and the text after it
SizeText(num, unit) == [num |-> num, unit |-> unit]
NoSizeText == SizeText(0, "none")

OneMB == 1024 * 1024

\* parseSize: 0 for an empty or non-numeric text, else the number scaled by
\* the unit named in the text
parseSize(sizeText) ==
  CASE sizeText.unit = "none" -> 0
    [] sizeText.unit = "MB" -> sizeText.num * 1024 * 1024
    [] sizeText.unit = "KB" -> sizeText.num * 1024
    [] OTHER -> sizeText.num

ExhibitDoc(seq, type, sizeText) ==
  [seq |-> seq, description |-> "", type |-> type, filename |-> seq,
   sizeText |-> sizeText]

\* the score of the sort: 3 high-signal, 0 junk, 1 otherwise
ScoreOf(d) ==
  IF isHighSignalExhibitType(d.type) THEN 3 ELSE IF isJunkType(d.type) THEN 0 ELSE 1

Scored(d) == [d |-> d, score |-> ScoreOf(d), sizeBytes |-> parseSize(d.sizeText)]

\* the comparator with the sizes the other way round (larger first)
StaysBefore_LargerFirst(a, b) ==
  IF b.score # a.score THEN b.score - a.score <= 0 ELSE b.sizeBytes - a.sizeBytes <= 0

\* the comparator of the sort is negative or zero: a stays before b
StaysBefore(a, b) ==
  IF b.score # a.score THEN b.score - a.score <= 0 ELSE a.sizeBytes - b.sizeBytes <= 0

\* Array.prototype.sort (stable): insertion of x after the last element it
\* must not precede
RECURSIVE InsertSorted(_, _)
InsertSorted(sorted, x) ==
  IF sorted = << >> THEN <<x>>
  ELSE IF StaysBefore(Head(sorted), x)
         THEN <<Head(sorted)>> \o InsertSorted(Tail(sorted), x)
         ELSE <<x>> \o sorted

RECURSIVE SortScored(_)
SortScored(items) ==
  IF items = << >> THEN << >>
  ELSE InsertSorted(SortScored(SubSeq(items, 1, Len(items) - 1)), items[Len(items)])

\* docs.map(...).sort(...)
ScoredDocs(docs) == SortScored([i \in 1..Len(docs) |-> Scored(docs[i])])

\* --------------------------------------------------- getDocsFromIndexHtml
\* The text between <td> and </td> is a sequence of pieces: words, " ",
\* tags, "&nbsp;" and "&amp;". The text after the replacements is the
\* sequence of its words, "&" and single inner spaces.
TagPieces == { "<b>", "</b>", "<br>", "<br/>" }

\* .replace(<br>, " ").replace(<tag>, " ").replace(&nbsp;, " ").replace(&amp;, "&")
Replaced(raw) ==
  [i \in 1..Len(raw) |->
     IF raw[i] \in TagPieces \cup { "&nbsp;" } THEN " "
     ELSE IF raw[i] = "&amp;" THEN "&" ELSE raw[i]]

\* .replace(/\s+/g, " ").trim(): of a run of spaces the first is kept, and
\* none at the start or at the end of the text
RECURSIVE CollapseFrom(_, _)
CollapseFrom(t, i) ==
  IF i > Len(t) THEN << >>
  ELSE LET kept == \/ t[i] # " "
                   \/ /\ i > 1
                      /\ t[i - 1] # " "
                      /\ \E j \in (i + 1)..Len(t) : t[j] # " "
       IN  (IF kept THEN << t[i] >> ELSE << >>) \o CollapseFrom(t, i + 1)

cellText(raw) == CollapseFrom(Replaced(raw), 1)

\* a <tr>: the value of its first href="..." split at "/" (<< >> without
\* one; the pattern takes no empty value), and its <td> cells
TableRow(href, cells) == [href |-> href, cells |-> cells]

\* a piece of the page: a <table> (its tag has summary="Document Format
\* Files"; its text holds the phrase "Document Format Files") or a <tr>
\* outside every table
TableBlock(summary, marker, rows) ==
  [kind |-> "table", summary |-> summary, marker |-> marker, rows |-> rows]
LooseRow(row) == [kind |-> "row", summary |-> FALSE, marker |-> FALSE, rows |-> << row >>]

RECURSIVE AllRows(_)
AllRows(html) ==
  IF html = << >> THEN << >> ELSE Head(html).rows \o AllRows(Tail(html))

\* lines 355-374: the rows of the table with the summary, else of the first
\* table that holds the phrase, else of the whole page
RowsToParse(html) ==
  LET tagged == SelectSeq(html, LAMBDA b : b.kind = "table" /\ b.summary)
      candidate == SelectSeq(html, LAMBDA b : b.kind = "table" /\ b.marker)
  IN  IF tagged # << >> THEN tagged[1].rows
      ELSE IF candidate # << >> THEN candidate[1].rows
      ELSE AllRows(html)

\* href.split("/").pop() || ""
FilenameOf(row) == IF row.href = << >> THEN "" ELSE row.href[Len(row.href)]

\* tds[k] || ""  (k counted from 0)
CellOr(tds, k) == IF k + 1 <= Len(tds) THEN tds[k + 1] ELSE << >>

\* the test of the type with the header text let through
RejectedType_EmptyOnly(type) == type = << >>

\* line 399: !type || type === "Type"
RejectedType(type) == type = << >> \/ type = << "Type" >>

\* lines 376-402: the rows in order, each pushed or passed over
RECURSIVE DocsOfRows(_)
DocsOfRows(rows) ==
  IF rows = << >> THEN << >>
  ELSE LET row == Head(rows)
           filename == FilenameOf(row)
           tds == [k \in 1..Len(row.cells) |-> cellText(row.cells[k])]
           type == CellOr(tds, 3)
           skipped == \/ filename = ""
                      \/ Len(tds) < 4
                      \/ RejectedType(type)
       IN  (IF skipped THEN << >>
            ELSE << [seq |-> CellOr(tds, 0), description |-> CellOr(tds, 1),
                     type |-> type, filename |-> filename,
                     sizeText |-> CellOr(tds, 4)] >>)
           \o DocsOfRows(Tail(rows))

getDocsFromIndexHtml(html) == DocsOfRows(RowsToParse(html))

\* ------------------------------------------------------------------ state
VARIABLES
  pc,                   \* position of the handler / of the selector call
  now,                  \* the clock, in ticks, when the call is made
  filings,              \* the filing history handed to the selector
  daysBack,             \* window of the 8-K and Form 4 rules, in days
  asOf,                 \* the as-of argument
  selectedWithReasons,  \* what pickFilingsPackWithReasons returned
  req,                  \* the query parameters of the pack request
  userAgentSet,         \* process.env.SEC_USER_AGENT is set
  response,             \* the Response the handler returned, if any
  archive,              \* names appended to the archive, in order
  fIdx,                 \* position of `for (const f of selected)`
  scored,               \* the sorted exhibit list of the current filing
  dIdx,                 \* position of `for (const { d } of scored)`
  downloadedCount,      \* exhibits accepted for the current filing
  exhibitsBytesUsed,    \* bytes of all exhibits accepted in this run
  inventoryLines,       \* rows of DOCS_INVENTORY.csv (without the header)
  indexNotFound,        \* report list: filings whose index page failed
  skippedByCap,         \* report list: exhibits skipped by a cap
  skippedByFilter,      \* report list: exhibits skipped otherwise
  downloadedExhibits,   \* report list: exhibits accepted
  docsOf,               \* (history) the rows extracted from each index page
  attempts,             \* (history) one record per exhibit loop iteration
  requested,            \* (history) the kinds of outbound request made so far
  registry,             \* the submissions documents the registry serves
  olderFailures,        \* console log: older history documents not retrieved
  url,                  \* fetchWithRetry: the url argument
  retries,              \* fetchWithRetry: the retries argument
  tryIdx,               \* fetchWithRetry: the loop counter i
  fetchLog,             \* (history) what each request attempt met
  fetchResult,          \* fetchWithRetry: the value returned or the error thrown
  indexHtml,            \* getDocsFromIndexHtml: the page handed to the parser
  exhibitDocs,          \* getDocsFromIndexHtml: the list returned
  clock,                \* Date.now() of the process, in hours
  cachedTickers,        \* the module variable cachedTickers (null or a table)
  lastTickerFetch,      \* the module variable lastTickerFetch
  calls,                \* the calls of getCikForTicker under way or ended
  stage,                \* request flow: the statement the handler is at
  inFlight              \* request flow: outbound requests sent and not yet answered

selVars == <<now, filings, daysBack, asOf, selectedWithReasons>>
reqVars == <<req, userAgentSet>>
loopVars == <<fIdx, scored, dIdx, downloadedCount>>
reportVars == <<exhibitsBytesUsed, inventoryLines, indexNotFound, skippedByCap,
                skippedByFilter, downloadedExhibits, docsOf, attempts>>
packVars == <<reqVars, response, archive, loopVars, reportVars, requested>>
listVars == <<registry, olderFailures>>
fetchVars == <<url, retries, tryIdx, fetchLog, fetchResult>>
indexVars == <<indexHtml, exhibitDocs>>
cacheVars == <<clock, cachedTickers, lastTickerFetch, calls>>
flowVars == <<stage, inFlight>>
auxVars == <<indexVars, cacheVars, flowVars>>
vars == <<pc, selVars, packVars, listVars, fetchVars, auxVars>>

\* ---------------------------------------------------- the pack request
\* a numeric query parameter: absent, a text Number() cannot parse, a number
Absent == [kind |-> "absent", n |-> 0]
NotANumber == [kind |-> "text", n |-> 0]
Num(n) == [kind |-> "number", n |-> n]

\* p ? Number(p) : fallback
NumberOr(p, fallback) == IF p.kind = "absent" THEN Num(fallback) ELSE p

\* parseBool: the fallback for an absent parameter, else "1", "true", "yes"
parseBool(v, fallback) ==
  IF v = "absent" THEN fallback ELSE v \in {"1", "true", "yes"}

NoResponse == [status |-> 0, body |-> "", url |-> ""]
Response(status, body) == [status |-> status, body |-> body, url |-> ""]

\* the catch block around the handler: an Error thrown by a download
DownloadError(what) ==
  [status |-> 500, body |-> "Error: Failed to download", url |-> what]

\* the response that carries the archive stream
ZipResponse == [status |-> 200, body |-> "application/zip", url |-> ""]

includeExhibits == parseBool(req.exhibits, TRUE)
deep == parseBool(req.deep, FALSE)
all == parseBool(req.all, TRUE)
maxEx == NumberOr(req.maxEx, 25).n
maxMb == NumberOr(req.maxMb, 75).n

\* Number.POSITIVE_INFINITY, as a number no byte or exhibit count reaches
Infinity == 2147483647

maxTotalBytes == IF deep THEN Infinity ELSE maxMb * 1024 * 1024
maxPerFiling == IF deep THEN Infinity ELSE maxEx

\* selectedWithReasons.map((x) => x.filing)
selected == [i \in 1..Len(selectedWithReasons) |-> selectedWithReasons[i].filing]

\* the state of the handler's variables before the request is read
PackIdle ==
  /\ req = [ticker |-> "", daysBack |-> Absent, maxEx |-> Absent, maxMb |-> Absent,
            exhibits |-> "absent", deep |-> "absent", all |-> "absent",
            asOf |-> NoAsOf]
  /\ userAgentSet = TRUE
  /\ response = NoResponse
  /\ archive = << >>
  /\ fIdx = 0
  /\ scored = << >>
  /\ dIdx = 0
  /\ downloadedCount = 0
  /\ exhibitsBytesUsed = 0
  /\ inventoryLines = << >>
  /\ indexNotFound = << >>
  /\ skippedByCap = << >>
  /\ skippedByFilter = << >>
  /\ downloadedExhibits = << >>
  /\ docsOf = << >>
  /\ attempts = << >>
  /\ requested = {}

\* no registry document drawn, nothing listed
ListIdle ==
  /\ registry = SubmissionsJson(<< >>, << >>)
  /\ olderFailures = << >>

\* what fetchWithRetry returns or throws; NoResult before it has ended
FetchResult(kind, status, text, named) ==
  [kind |-> kind, status |-> status, text |-> text, url |-> named]
NoResult == FetchResult("none", 0, "", "")

\* no call of fetchWithRetry under way
FetchIdle ==
  /\ url = ""
  /\ retries = 0
  /\ tryIdx = 0
  /\ fetchLog = << >>
  /\ fetchResult = NoResult

\* the parser has not been called
IndexIdle ==
  /\ indexHtml = << >>
  /\ exhibitDocs = << >>

\* the value of cachedTickers: null, or the table of a response
NoTable == [loaded |-> FALSE, entries |-> {}]
Table(entries) == [loaded |-> TRUE, entries |-> entries]

\* the module state of lib/sec.ts when it is loaded (lines 119-123), and no
\* call of getCikForTicker made
CacheIdle ==
  /\ clock = 0
  /\ cachedTickers = NoTable
  /\ lastTickerFetch = 0
  /\ calls = << >>

\* the statement of the handler that is next: the ticker, the history, the
\* k-th older document, the primary document or the index page of the f-th
\* selected filing, its d-th exhibit; "none" outside a request
Stage(at, f, d) == [at |-> at, f |-> f, d |-> d]

\* no request under way
FlowIdle ==
  /\ stage = Stage("none", 0, 0)
  /\ inFlight = {}

AuxIdle == IndexIdle /\ CacheIdle /\ FlowIdle

\* ------------------------------------------- inputs drawn for the selector
\* form codes as the registry spells them: one per rule family, a spelling
\* that needs normForm, and a code that no rule claims
SelForms ==
  { F10K, F10Q, F8K, <<" ","8","-","k">>, <<"S","-","3","/","A">>,
    <<"4","2","4","B","5">>, FEFFECT, <<"D","E","F"," ","1","4","A">>, FS8, F4,
    <<"1","0","-","K","/","A">> }

Days == 0..MaxDay

\* the form codes drawn for the filing appended to h: any code for the
\* first two filings, then further filings of the form of the last one
NextForms(h) == IF Len(h) < 2 THEN SelForms ELSE {h[Len(h)].form}

\* the accession numbers a filing appended to h may carry: the next unused
\* one (numbered in order of first use) or, for the first two filings, one
\* already in h
NextAccessions(h) ==
  LET used == Cardinality({h[j].accessionNumber : j \in 1..Len(h)})
  IN  IF Len(h) < 2 THEN 1..(1 + used) ELSE {1 + used}

\* the filing dates a filing appended to h may carry: the list is newest
\* first (both retrieval modes sort by filing date, descending)
NextDays(h) == IF h = << >> THEN Days ELSE 0..h[Len(h)].filingDate

\* the calendar day the calls are made on, and the instants of that day
Today == MaxDay - 1
ClockChoices == { Today * TicksPerDay + k : k \in 0..(TicksPerDay - 1) }

\* the calls tried: no as-of date at each instant of today; as-of today with
\* a window of one and of two days; an as-of string that is no date
SelCall(a, c, d) == [asOf |-> a, now |-> c, daysBack |-> d]

SelCalls ==
  { SelCall(NoAsOf, c, 1) : c \in ClockChoices }
  \cup { SelCall(AsOfDay(Today), Today * TicksPerDay, d) : d \in {1, 2} }
  \cup { SelCall(BadAsOf, Today * TicksPerDay, 1) }

\* ------------------------------------------ specification of the selector
\* The argument list is drawn one filing at a time (DrawFiling), then the
\* selector is called once on it (PickFilingsPack).
SelInit ==
  /\ pc = "draw"
  /\ \E c \in SelCalls :
       /\ now = c.now
       /\ daysBack = c.daysBack
       /\ asOf = c.asOf
  /\ filings = << >>
  /\ selectedWithReasons = << >>
  /\ PackIdle
  /\ ListIdle
  /\ FetchIdle
  /\ AuxIdle

\* the caller's history gets one more (older or same-day) filing
DrawFiling ==
  /\ pc = "draw"
  /\ Len(filings) < MaxFilings
  /\ \E form \in NextForms(filings), acc \in NextAccessions(filings),
        day \in NextDays(filings) :
       filings' = Append(filings, Filing(form, acc, day))
  /\ UNCHANGED <<pc, now, daysBack, asOf, selectedWithReasons, packVars, listVars,
                 fetchVars, auxVars>>

\* one call of pickFilingsPackWithReasons(filings, daysBack, asOf)
PickFilingsPack ==
  /\ pc = "draw"
  /\ selectedWithReasons' = pickFilingsPackWithReasons(filings, daysBack, asOf, now)
  /\ pc' = "picked"
  /\ UNCHANGED <<now, filings, daysBack, asOf, packVars, listVars, fetchVars, auxVars>>

SelNext == DrawFiling \/ PickFilingsPack

SpecSel == SelInit /\ [][SelNext]_vars


\* ------------------------------------------- inputs drawn for a pack build
\* the day the pack requests are made on
PackToday == 30 + MaxDay

EX101INS == <<"E","X","-","1","0","1",".","I","N","S">>
EX104 == <<"e","x","-","1","0","4">>
EX10_1 == <<"E","X","-","1","0",".","1">>
EX99_1 == <<"E","X","-","9","9",".","1">>
EX21 == <<"E","X","-","2","1">>

\* the index rows drawn: type and reported size. EX-101.INS and ex-104 are
\* junk, EX-10.1 and EX-99.1 high-signal, EX-21 neither.
DocCatalogue ==
  { [type |-> EX101INS, sizeText |-> SizeText(6, "MB")],
    [type |-> EX104, sizeText |-> NoSizeText],
    [type |-> EX10_1, sizeText |-> SizeText(1, "MB")],
    [type |-> EX99_1, sizeText |-> SizeText(6, "MB")],
    [type |-> EX21, sizeText |-> SizeText(500, "KB")] }

JunkTypesDrawn == { EX101INS, EX104 }
HighSignalTypesDrawn == { EX10_1, EX99_1 }

\* the byte lengths a downloaded exhibit may turn out to have
ByteLengths == { 2 * OneMB, 3 * OneMB }

\* rows of index pages (exhibit candidates) met in one pack build, at most
MaxDocs == 3

\* the lists of n rows getDocsFromIndexHtml may return; row i is file i
RECURSIVE DocListsOfLen(_)
DocListsOfLen(n) ==
  IF n = 0 THEN { << >> }
  ELSE { Append(l, ExhibitDoc(n, k.type, k.sizeText)) :
           l \in DocListsOfLen(n - 1), k \in DocCatalogue }

\* recent windows the registry serves with no older document, newest first
PackHistories ==
  { << >>,
    << Filing(F4, 3, PackToday + 1), Filing(F8K, 1, PackToday),
       Filing(F10K, 2, PackToday - 5) >>,
    << Filing(F8K, 1, PackToday + 1), Filing(F8K, 2, PackToday - 31) >> }

\* the names of the older history documents of the registries drawn
FileNames == << "CIK-submissions-001.json", "CIK-submissions-002.json" >>

\* what the registry serves: each of these recent windows alone, and a
\* recent window of one 10-K with two older documents, the first answered
\* 404, the second holding an 8-K older than the window of the 8-K rule and
\* the 10-K again
PackRegistries ==
  { SubmissionsJson(h, << >>) : h \in PackHistories }
  \cup { SubmissionsJson(
           << Filing(F10K, 1, PackToday - 5) >>,
           << SubmissionsFileEntry(FileNames[1], 404, << >>),
              SubmissionsFileEntry(FileNames[2], 200,
                << Filing(F8K, 2, PackToday - 40), Filing(F10K, 1, PackToday - 5) >>) >>) }

Request(ticker, pDays, pMaxEx, pMaxMb, exhibits, deepArg, asOfArg) ==
  [ticker |-> ticker, daysBack |-> pDays, maxEx |-> pMaxEx, maxMb |-> pMaxMb,
   exhibits |-> exhibits, deep |-> deepArg, all |-> "absent", asOf |-> asOfArg]

\* requests that pass validation: exhibits off, on the recent window only;
\* deep; capped at one and at two exhibits per filing, with the smallest
\* total cap
ValidRequests ==
  { [Request("AAPL", Num(30), Absent, Absent, "0", "absent", AsOfDay(PackToday))
       EXCEPT !.all = "0"],
    Request("AAPL", Num(30), Num(1), Num(5), "absent", "true", NoAsOf),
    Request("AAPL", Num(30), Num(1), Num(5), "absent", "0", AsOfDay(PackToday)),
    Request("AAPL", Num(30), Num(2), Num(5), "1", "absent", NoAsOf) }

\* requests that validation rejects, one per check
InvalidRequests ==
  { Request("", Absent, Absent, Absent, "absent", "absent", NoAsOf),
    Request("AAPL", NotANumber, Absent, Absent, "absent", "absent", NoAsOf),
    Request("AAPL", Num(29), Absent, Absent, "absent", "absent", NoAsOf),
    Request("AAPL", Num(731), Absent, Absent, "absent", "absent", NoAsOf),
    Request("AAPL", Absent, NotANumber, Absent, "absent", "absent", NoAsOf),
    Request("AAPL", Absent, Num(0), Absent, "absent", "absent", NoAsOf),
    Request("AAPL", Absent, Num(101), Absent, "absent", "absent", NoAsOf),
    Request("AAPL", Absent, Absent, NotANumber, "absent", "absent", NoAsOf),
    Request("AAPL", Absent, Absent, Num(4), "absent", "absent", NoAsOf),
    Request("AAPL", Absent, Absent, Num(501), "absent", "absent", NoAsOf) }

PackRequests == ValidRequests \cup InvalidRequests

\* --------------------------------------------- the pack handler (GET)
\* a row of DOCS_INVENTORY.csv; a row that stands for no document has an
\* empty docType and filename
InventoryRow(f, docType, filename, sizeText, status, reason) ==
  [filing |-> f, docType |-> docType, filename |-> filename, sizeText |-> sizeText,
   status |-> status, reason |-> reason]

DocRow(f, d, status, reason) ==
  InventoryRow(f, d.type, d.filename, d.sizeText, status, reason)

NoDocRow(f, reason) == InventoryRow(f, << >>, 0, NoSizeText, "SKIPPED", reason)

\* a line of the exhibit reports
ReportLine(f, d, note) == [filing |-> f, docType |-> d.type, filename |-> d.filename,
                           note |-> note]

\* an entry appended to the archive: a report file by name, or a payload
\* under filings/, indexes/ or exhibits/ named after its filing and file
ArchiveEntry(folder, name, acc, file) ==
  [folder |-> folder, name |-> name, acc |-> acc, file |-> file]
ReportEntry(name) == ArchiveEntry("", name, 0, 0)
FilingEntry(f) == ArchiveEntry("filings", "", f.accessionNumber, 0)
IndexEntry(f) == ArchiveEntry("indexes", "", f.accessionNumber, 0)
ExhibitEntry(f, d) == ArchiveEntry("exhibits", "", f.accessionNumber, d.filename)

\* the loop over the selected filings left one filing early
LoopExhausted_OneEarly(i, n) == i >= n

\* `for (const f of selected)` has no filing left
LoopExhausted(i, n) == i > n

\* `for (const { d } of scored)` has an exhibit left after position i
MoreExhibits(i, n) == i < n

\* rows of index pages met so far in this run
DocsSeen == LET Sum[k \in 0..Len(docsOf)] ==
                 IF k = 0 THEN 0 ELSE Sum[k - 1] + Len(docsOf[k].docs)
            IN  Sum[Len(docsOf)]

PackInit ==
  /\ pc = "start"
  /\ now = PackToday * TicksPerDay + 1
  /\ filings = << >>
  /\ daysBack = 0
  /\ asOf = NoAsOf
  /\ selectedWithReasons = << >>
  /\ req \in PackRequests
  /\ userAgentSet \in BOOLEAN
  /\ response = NoResponse
  /\ archive = << >>
  /\ fIdx = 0
  /\ scored = << >>
  /\ dIdx = 0
  /\ downloadedCount = 0
  /\ exhibitsBytesUsed = 0
  /\ inventoryLines = << >>
  /\ indexNotFound = << >>
  /\ skippedByCap = << >>
  /\ skippedByFilter = << >>
  /\ downloadedExhibits = << >>
  /\ docsOf = << >>
  /\ attempts = << >>
  /\ requested = {}
  /\ ListIdle
  /\ FetchIdle
  /\ AuxIdle

\* the handler returns `r`
Return(r) == response' = r /\ pc' = "done"

\* the check of one numeric parameter without the test of the range
NumberCheck_NoRange(p, fallback, lo, hi, name) ==
  IF NumberOr(p, fallback).kind = "text"
    THEN "Invalid " \o name \o " parameter (must be a number)"
    ELSE ""

\* the check of one numeric parameter: its error text, or "" when it passes
NumberCheck(p, fallback, lo, hi, name) ==
  LET v == NumberOr(p, fallback)
  IN  IF v.kind = "text" THEN "Invalid " \o name \o " parameter (must be a number)"
      ELSE IF v.n < lo \/ v.n > hi THEN name \o " out of range"
      ELSE ""

\* the first validation that rejects the request, "" when none does
ValidationError ==
  LET eDays == NumberCheck(req.daysBack, 365, 30, 730, "daysBack")
      eEx == NumberCheck(req.maxEx, 25, 1, 100, "maxEx")
      eMb == NumberCheck(req.maxMb, 75, 5, 500, "maxMb")
  IN  IF req.ticker = "" THEN "Missing ticker"
      ELSE IF eDays # "" THEN eDays
      ELSE IF eEx # "" THEN eEx
      ELSE eMb

\* lines 37-91: read and validate the query, check the configuration
ParseRequest ==
  /\ pc = "start"
  /\ IF ValidationError # ""
       THEN Return(Response(400, ValidationError)) /\ UNCHANGED <<daysBack, asOf>>
     ELSE IF ~userAgentSet
       THEN /\ Return(Response(500, "Missing SEC_USER_AGENT in .env.local"))
            /\ UNCHANGED <<daysBack, asOf>>
     ELSE /\ pc' = "resolve"
          /\ daysBack' = NumberOr(req.daysBack, 365).n
          /\ asOf' = req.asOf
          /\ UNCHANGED response
  /\ UNCHANGED <<now, filings, selectedWithReasons, reqVars, archive, loopVars,
                 reportVars, requested, listVars, fetchVars, auxVars>>

\* line 93: getCikForTicker resolves the ticker or throws; the mapping is
\* requested from the registry unless a copy less than a day old is cached
ResolveTicker ==
  /\ pc = "resolve"
  /\ \/ pc' = "fetch" /\ UNCHANGED response
     \/ Return(Response(500, "Error: Ticker not found in SEC mapping"))
  /\ \E cached \in BOOLEAN :
       requested' = IF cached THEN requested ELSE requested \cup {"registry"}
  /\ UNCHANGED <<selVars, reqVars, archive, loopVars, reportVars, listVars, fetchVars, auxVars>>

\* lines 95-97: the filing history is retrieved in the mode of `all`, or
\* the retrieval throws
FetchFilings ==
  /\ pc = "fetch"
  /\ requested' = requested \cup {"registry"}
  /\ \/ /\ \E json \in PackRegistries :
             /\ registry' = json
             /\ filings' = IF all THEN getAllFilingsOptionB(json)
                                  ELSE getRecentFilings(json)
             /\ olderFailures' = IF all THEN FailedOlderIndexes(json) ELSE << >>
        /\ pc' = "select"
        /\ UNCHANGED response
     \/ /\ Return(Response(500, "Error: Failed to fetch submissions JSON"))
        /\ UNCHANGED <<filings, listVars>>
  /\ UNCHANGED <<now, daysBack, asOf, selectedWithReasons, reqVars, archive,
                 loopVars, reportVars, fetchVars, auxVars>>

\* a line of FILINGS_MISSING.txt: its text and, for the count, the number
MissingLine(text, n) == [text |-> text, n |-> n]

\* lines 152-169: the content of FILINGS_MISSING.txt, from the `filings`
\* the retrieval returned
FilingsMissing(fs) ==
  LET has(kind) ==
        \E i \in DOMAIN fs :
          CASE kind = "S3" -> isS3(fs[i].form)
            [] kind = "424B" -> isProspectus(fs[i].form)
            [] OTHER -> normForm(fs[i].form) = FEFFECT
      form4Count == Cardinality({ i \in DOMAIN fs : normForm(fs[i].form) = F4 })
      when(cond, text) == IF cond THEN << MissingLine(text, 0) >> ELSE << >>
  IN  when(~has("S3"), "S-3 / S-3A: NOT FOUND")
      \o when(~has("424B"), "424B*: NOT FOUND")
      \o when(~has("EFFECT"), "EFFECT: NOT FOUND")
      \o << MissingLine("Form 4 total found in merged filings: ", form4Count) >>
      \o when(has("S3"), "S-3 / S-3A: FOUND")
      \o when(has("424B"), "424B*: FOUND")
      \o when(has("EFFECT"), "EFFECT: FOUND")

\* the test of the selection that is never met
NothingSelected_Never(sel) == FALSE

\* line 109: selected.length === 0
NothingSelected(sel) == Len(sel) = 0

\* lines 99-238: select; 404 on an empty selection; else open the archive
\* stream and append the reports that need no download
SelectAndOpen ==
  /\ pc = "select"
  /\ LET sel == pickFilingsPackWithReasons(filings, daysBack, asOf, now)
     IN  /\ selectedWithReasons' = sel
         /\ IF NothingSelected(sel)
              THEN /\ Return(Response(404, "No filings found for pack selection."))
                   /\ UNCHANGED <<archive, fIdx>>
              ELSE /\ archive' = << ReportEntry("FILINGS_REPORT.csv"),
                                    ReportEntry("FILINGS_MISSING.txt"),
                                    ReportEntry("MANIFEST.txt"),
                                    ReportEntry("AI_EVALUATION_CHECKLIST.md") >>
                   /\ fIdx' = 1
                   /\ pc' = "main"
                   /\ UNCHANGED response
  /\ UNCHANGED <<now, filings, daysBack, asOf, reqVars, scored, dIdx,
                 downloadedCount, reportVars, requested, listVars, fetchVars, auxVars>>

\* `continue` of the outer loop, or the end of its body: on to the next filing
NextFiling ==
  /\ fIdx' = fIdx + 1
  /\ scored' = << >>
  /\ dIdx' = 0
  /\ downloadedCount' = 0
  /\ pc' = "main"

\* lines 240-247: the primary document of the next selected filing; a
\* failed download is not caught in the loop and ends the run in the catch
DownloadMain ==
  /\ pc = "main"
  /\ ~LoopExhausted(fIdx, Len(selected))
  /\ \/ /\ archive' = Append(archive, FilingEntry(selected[fIdx]))
        /\ pc' = "index"
        /\ UNCHANGED response
     \/ /\ Return(DownloadError("primary document"))
        /\ UNCHANGED archive
  /\ requested' = requested \cup {"primary"}
  /\ UNCHANGED <<selVars, reqVars, loopVars, reportVars, listVars, fetchVars, auxVars>>

\* the rows pushed when exhibits are disabled: every row SKIPPED
DisabledRows(f, docs) ==
  [i \in 1..Len(docs) |-> DocRow(f, docs[i], "SKIPPED", "exhibits disabled")]

\* the download of the index page left outside the try block
OnIndexFailure_Uncaught(f) ==
  /\ Return(DownloadError("index page"))
  /\ UNCHANGED <<indexNotFound, inventoryLines, docsOf, archive, loopVars>>

\* lines 258-276: the catch of the index download: the failure is recorded
\* in the report list and the inventory, on to the next filing
OnIndexFailure(f) ==
  /\ indexNotFound' = Append(indexNotFound, f)
  /\ inventoryLines' = Append(inventoryLines,
       NoDocRow(f, "index not found (cannot enumerate docs)"))
  /\ docsOf' = Append(docsOf, [retrieved |-> FALSE, docs |-> << >>])
  /\ NextFiling
  /\ UNCHANGED <<archive, response>>

\* lines 249-342: the index page of the filing, its rows, and the sort
DownloadIndex ==
  /\ pc = "index"
  /\ LET f == selected[fIdx]
     IN  \/ OnIndexFailure(f)
         \/ \E n \in 0..(MaxDocs - DocsSeen) : \E docs \in DocListsOfLen(n) :
              LET noRows == IF docs = << >>
                              THEN << NoDocRow(f,
                                "index parsed but no docs rows found (parser/table variance)") >>
                              ELSE << >>
              IN  /\ archive' = Append(archive, IndexEntry(f))
                  /\ docsOf' = Append(docsOf, [retrieved |-> TRUE, docs |-> docs])
                  /\ UNCHANGED <<indexNotFound, response>>
                  /\ IF ~includeExhibits
                       THEN /\ inventoryLines' =
                                 inventoryLines \o noRows \o DisabledRows(f, docs)
                            /\ NextFiling
                       ELSE /\ inventoryLines' = inventoryLines \o noRows
                            /\ IF docs = << >>
                                 THEN NextFiling
                                 ELSE /\ scored' = ScoredDocs(docs)
                                      /\ dIdx' = 1
                                      /\ downloadedCount' = 0
                                      /\ pc' = "exhibit"
                                      /\ UNCHANGED fIdx
  /\ requested' = requested \cup {"index"}
  /\ UNCHANGED <<selVars, reqVars, exhibitsBytesUsed, skippedByCap,
                 skippedByFilter, downloadedExhibits, attempts, listVars, fetchVars, auxVars>>

\* the per-filing cap let one exhibit too many through (count > max)
PerFilingCapReached_OffByOne(count, max) == count > max

\* line 402: downloadedCount >= maxPerFiling
PerFilingCapReached(count, max) == count >= max

\* the check before the download made on the reported size of the exhibit
TotalCapReached_ByReportedSize(used, reported, max) == used + reported > max

\* line 427: exhibitsBytesUsed >= maxTotalBytes; the reported size of the
\* exhibit is at hand (sizeBytes of the scored entry) and is not consulted
TotalCapReached(used, reported, max) == used >= max

\* the check after the download repeating the check before it
WouldExceedTotal_NotRechecked(used, byteLength, max) == used >= max

\* line 481: exhibitsBytesUsed + exBuf.byteLength > maxTotalBytes
WouldExceedTotal(used, byteLength, max) == used + byteLength > max

\* the loop body with the caps of the request applied in deep mode as well
SkipBeforeDownload_CappedInDeep(entry) ==
  IF isJunkType(entry.d.type) THEN "junk (XBRL noise)"
  ELSE IF ~deep /\ ~isHighSignalExhibitType(entry.d.type)
    THEN "not high-signal (non-deep mode)"
  ELSE IF PerFilingCapReached(downloadedCount, maxEx)
    THEN "cap: maxExPerFiling"
  ELSE IF TotalCapReached(exhibitsBytesUsed, entry.sizeBytes, maxMb * 1024 * 1024)
    THEN "cap: maxTotalMB"
  ELSE ""

\* what the loop body decides for exhibit d without a download: the reason
\* of the skip, or "" when the exhibit is to be downloaded (lines 349-450)
SkipBeforeDownload(entry) ==
  IF isJunkType(entry.d.type) THEN "junk (XBRL noise)"
  ELSE IF ~deep /\ ~isHighSignalExhibitType(entry.d.type)
    THEN "not high-signal (non-deep mode)"
  ELSE IF ~deep /\ PerFilingCapReached(downloadedCount, maxPerFiling)
    THEN "cap: maxExPerFiling"
  ELSE IF ~deep /\ TotalCapReached(exhibitsBytesUsed, entry.sizeBytes, maxTotalBytes)
    THEN "cap: maxTotalMB"
  ELSE ""

\* the report list a skip is pushed to: skippedByCap for the caps
IsCapReason(reason) ==
  reason \in {"cap: maxExPerFiling", "cap: maxTotalMB", "cap: would exceed maxTotalMB"}

\* the record kept of one loop iteration (history)
Attempt(i, d, fetched, byteLength, status, reason) ==
  [filing |-> i, filename |-> d.filename, docType |-> d.type,
   reported |-> parseSize(d.sizeText), usedBefore |-> exhibitsBytesUsed,
   countBefore |-> downloadedCount, fetched |-> fetched, byteLength |-> byteLength,
   status |-> status, reason |-> reason]

\* the end of one iteration of the exhibit loop
NextExhibit ==
  IF MoreExhibits(dIdx, Len(scored))
    THEN dIdx' = dIdx + 1 /\ pc' = "exhibit" /\ UNCHANGED <<fIdx, scored>>
    ELSE fIdx' = fIdx + 1 /\ scored' = << >> /\ dIdx' = 0 /\ pc' = "main"

\* the catch of a failed exhibit download pushing no inventory row
SkipRows_FailureUnrecorded(f, d, reason) ==
  IF reason = "download failed" THEN << >> ELSE << DocRow(f, d, "SKIPPED", reason) >>

\* the inventory row pushed by each of the skip branches
SkipRows(f, d, reason) == << DocRow(f, d, "SKIPPED", reason) >>

\* the exhibit is skipped: a report line and an inventory row with the reason
SkipExhibit(f, d, fetched, byteLength, reason) ==
  /\ inventoryLines' = inventoryLines \o SkipRows(f, d, reason)
  /\ IF IsCapReason(reason)
       THEN /\ skippedByCap' = Append(skippedByCap, ReportLine(f, d, reason))
            /\ UNCHANGED skippedByFilter
       ELSE /\ skippedByFilter' = Append(skippedByFilter, ReportLine(f, d, reason))
            /\ UNCHANGED skippedByCap
  /\ attempts' = Append(attempts, Attempt(fIdx, d, fetched, byteLength, "SKIPPED", reason))
  /\ UNCHANGED <<exhibitsBytesUsed, downloadedExhibits, archive>>

\* the exhibit is accepted into a total that starts again with each filing
AcceptExhibit_PerFilingTotal(f, d, byteLength) ==
  /\ exhibitsBytesUsed' = IF downloadedCount = 0 THEN byteLength
                                                 ELSE exhibitsBytesUsed + byteLength
  /\ downloadedExhibits' = Append(downloadedExhibits, ReportLine(f, d, ""))
  /\ archive' = Append(archive, ExhibitEntry(f, d))
  /\ inventoryLines' = Append(inventoryLines, DocRow(f, d, "DOWNLOADED", ""))
  /\ attempts' = Append(attempts, Attempt(fIdx, d, TRUE, byteLength, "DOWNLOADED", ""))
  /\ UNCHANGED <<skippedByCap, skippedByFilter>>

\* the exhibit is accepted (lines 506-531)
AcceptExhibit(f, d, byteLength) ==
  /\ exhibitsBytesUsed' = exhibitsBytesUsed + byteLength
  /\ downloadedExhibits' = Append(downloadedExhibits, ReportLine(f, d, ""))
  /\ archive' = Append(archive, ExhibitEntry(f, d))
  /\ inventoryLines' = Append(inventoryLines, DocRow(f, d, "DOWNLOADED", ""))
  /\ attempts' = Append(attempts, Attempt(fIdx, d, TRUE, byteLength, "DOWNLOADED", ""))
  /\ UNCHANGED <<skippedByCap, skippedByFilter>>

\* the catch of a failed exhibit download counting the exhibit as accepted
OnDownloadFailure_Counted(f, d) ==
  /\ SkipExhibit(f, d, TRUE, 0, "download failed")
  /\ downloadedCount' = downloadedCount + 1

\* lines 456-479: the catch of a failed exhibit download: a report line, an
\* inventory row SKIPPED "download failed", and `continue`
OnDownloadFailure(f, d) ==
  /\ SkipExhibit(f, d, TRUE, 0, "download failed")
  /\ UNCHANGED downloadedCount

\* lines 344-532: one iteration of the exhibit loop
ExhibitStep ==
  /\ pc = "exhibit"
  /\ LET f == selected[fIdx]
         entry == scored[dIdx]
         d == entry.d
         early == SkipBeforeDownload(entry)
     IN  IF early # ""
           THEN /\ SkipExhibit(f, d, FALSE, 0, early)
                /\ UNCHANGED downloadedCount
           ELSE \/ \* downloadAsBuffer throws
                   OnDownloadFailure(f, d)
                \/ \E len \in ByteLengths :
                     IF ~deep /\ WouldExceedTotal(exhibitsBytesUsed, len, maxTotalBytes)
                       THEN /\ SkipExhibit(f, d, TRUE, len, "cap: would exceed maxTotalMB")
                            /\ UNCHANGED downloadedCount
                       ELSE /\ AcceptExhibit(f, d, len)
                            /\ downloadedCount' = downloadedCount + 1
  /\ requested' = IF SkipBeforeDownload(scored[dIdx]) # "" THEN requested
                                                          ELSE requested \cup {"exhibit"}
  /\ NextExhibit
  /\ UNCHANGED <<selVars, reqVars, response, indexNotFound, docsOf, listVars, fetchVars, auxVars>>

\* lines 535-577: the inventory and the exhibit report are appended, the
\* archive is finalized without waiting, and the response is returned
Finish ==
  /\ pc = "main"
  /\ LoopExhausted(fIdx, Len(selected))
  /\ archive' = archive \o << ReportEntry("DOCS_INVENTORY.csv"),
                              ReportEntry("EXHIBITS_REPORT.txt") >>
  /\ Return(ZipResponse)
  /\ UNCHANGED <<selVars, reqVars, loopVars, reportVars, requested, listVars, fetchVars, auxVars>>

PackNext ==
  \/ ParseRequest
  \/ ResolveTicker
  \/ FetchFilings
  \/ SelectAndOpen
  \/ DownloadMain
  \/ DownloadIndex
  \/ ExhibitStep
  \/ Finish

SpecPack == PackInit /\ [][PackNext]_vars

\* ------------------------------------------------------ fetchWithRetry
\* the default of the parameter `retries`
DefaultRetries == 3

\* the largest `retries` argument drawn
MaxRetries == 3

\* neither the selector nor the handler is running
NoCallerState ==
  /\ now = 0
  /\ filings = << >>
  /\ daysBack = 0
  /\ asOf = NoAsOf
  /\ selectedWithReasons = << >>
  /\ req = Request("", Absent, Absent, Absent, "absent", "absent", NoAsOf)
  /\ response = NoResponse
  /\ archive = << >>
  /\ fIdx = 0
  /\ scored = << >>
  /\ dIdx = 0
  /\ downloadedCount = 0
  /\ exhibitsBytesUsed = 0
  /\ inventoryLines = << >>
  /\ indexNotFound = << >>
  /\ skippedByCap = << >>
  /\ skippedByFilter = << >>
  /\ downloadedExhibits = << >>
  /\ docsOf = << >>
  /\ attempts = << >>
  /\ requested = {}

\* what one request attempt meets: a response (its status, its Retry-After
\* header in seconds or -1 without one) or an error thrown by fetch()
Met(kind, status, retryAfter, error) ==
  [kind |-> kind, status |-> status, retryAfter |-> retryAfter, error |-> error]

\* statuses the registry answers with
FetchStatuses == {200, 299, 300, 404, 429, 499, 500, 599}

\* Retry-After of a response: none, or two seconds
RetryAfterHeaders == {-1, 2}

\* the errors fetch() throws when no response arrives; the runtime words
\* them, with or without the url
NetworkErrors(u) ==
  { FetchResult("error", 0, "fetch failed", ""),
    FetchResult("error", 0, "request failed", u) }

MetChoices(u) ==
  { Met("response", st, -1, NoResult) : st \in FetchStatuses }
  \cup { Met("response", 429, ra, NoResult) : ra \in RetryAfterHeaders }
  \cup { Met("error", 0, -1, e) : e \in NetworkErrors(u) }

\* res.ok
IsOk(status) == status \in 200..299

\* assertEnv() with the test of the setting left out
assertEnv_NoCheck == TRUE

\* assertEnv() returns (TRUE) or throws (FALSE)
assertEnv == userAgentSet

\* the Error assertEnv throws
MissingUserAgentError ==
  FetchResult("error", 0, "Missing SEC_USER_AGENT in .env.local (required by SEC).", "")

\* the Error thrown after the loop (line 115)
RetriesUsedUpError(u, n) == FetchResult("error", n, "Failed to fetch after retries", u)

\* the delay before the next attempt, in ms: Retry-After on a 429 that
\* carries one, else 1000 * 2^i
DelayOf(met, k) ==
  IF met.kind = "response" /\ met.status = 429 /\ met.retryAfter # -1
    THEN met.retryAfter * 1000
    ELSE 1000 * 2^k

\* an entry of the log of attempts: what attempt k met and the delay slept
\* after it (0 when the call ended with it)
LogEntry(met, delay) == [met |-> met, delay |-> delay]

FetchUrls == { "https://data.sec.gov/submissions/CIK0000320193.json" }

FetchInit ==
  /\ pc = "call"
  /\ url \in FetchUrls
  /\ retries \in {DefaultRetries} \cup 0..MaxRetries
  /\ userAgentSet \in BOOLEAN
  /\ tryIdx = 0
  /\ fetchLog = << >>
  /\ fetchResult = NoResult
  /\ NoCallerState
  /\ ListIdle
  /\ AuxIdle

\* lines 79-80: assertEnv() throws or the loop is entered
FetchEnter ==
  /\ pc = "call"
  /\ IF assertEnv
       THEN pc' = "loop" /\ UNCHANGED fetchResult
       ELSE pc' = "thrown" /\ fetchResult' = MissingUserAgentError
  /\ UNCHANGED <<selVars, packVars, listVars, auxVars, url, retries, tryIdx, fetchLog>>

\* the call ends with attempt `met`: returning the response or throwing
FetchEnds(met, how, result) ==
  /\ fetchLog' = Append(fetchLog, LogEntry(met, 0))
  /\ fetchResult' = result
  /\ pc' = how
  /\ UNCHANGED tryIdx

\* the delay is slept and the loop goes on to the next attempt
FetchRetries(met) ==
  /\ fetchLog' = Append(fetchLog, LogEntry(met, DelayOf(met, tryIdx)))
  /\ tryIdx' = tryIdx + 1
  /\ UNCHANGED <<pc, fetchResult>>

\* lines 82-113: one iteration of the loop, one request
FetchTry ==
  /\ pc = "loop"
  /\ tryIdx < retries
  /\ \E met \in MetChoices(url) :
       IF met.kind = "response"
         THEN IF IsOk(met.status)
                THEN FetchEnds(met, "returned", FetchResult("response", met.status, "", url))
              ELSE IF met.status = 429
                THEN FetchRetries(met)
              ELSE IF met.status >= 500 /\ met.status < 600
                THEN FetchRetries(met)
              ELSE FetchEnds(met, "returned", FetchResult("response", met.status, "", url))
         ELSE IF tryIdx = retries - 1
                THEN FetchEnds(met, "thrown", met.error)
                ELSE FetchRetries(met)
  /\ UNCHANGED <<selVars, packVars, listVars, auxVars, url, retries>>

\* line 115: the loop ended without a return
FetchGivesUp ==
  /\ pc = "loop"
  /\ tryIdx >= retries
  /\ fetchResult' = RetriesUsedUpError(url, retries)
  /\ pc' = "thrown"
  /\ UNCHANGED <<selVars, packVars, listVars, auxVars, url, retries, tryIdx, fetchLog>>

FetchNext == FetchEnter \/ FetchTry \/ FetchGivesUp

SpecFetch == FetchInit /\ [][FetchNext]_vars

\* ------------------------- the handler and the registry client side by side
ClientInit == PackInit \/ FetchInit

ClientNext == PackNext \/ FetchNext

SpecClient == ClientInit /\ [][ClientNext]_vars

\* ------------------------------------- getRecentFilings, getAllFilingsOptionB
\* rows of the submissions documents of one registry (recent and older), at most
MaxRows == 3

RowsDrawn(json) ==
  LET RowsIn[k \in 0..Len(json.files)] ==
        IF k = 0 THEN Len(json.recent) ELSE RowsIn[k - 1] + Len(json.files[k].recent)
  IN  RowsIn[Len(json.files)]

AccessionsDrawn(json) ==
  { json.recent[j].accessionNumber : j \in DOMAIN json.recent }
  \cup UNION { { json.files[k].recent[j].accessionNumber : j \in DOMAIN json.files[k].recent } :
               k \in DOMAIN json.files }

\* the rows a document may go on with: an accession number met before or
\* the next new one, any of the days, all fields present; or a row whose
\* primaryDocument is empty
NextRows(json) ==
  { SubmissionsRow(F8K, acc, day, "primary.htm") :
      acc \in 1..(Cardinality(AccessionsDrawn(json) \ {0}) + 1), day \in 1..MaxRows }
  \cup { SubmissionsRow(F8K, 1, 1, "") }

\* the registry, as the calls will find it, is drawn step by step
ListInit ==
  /\ pc = "draw"
  /\ NoCallerState
  /\ userAgentSet = TRUE
  /\ requested = {}
  /\ ListIdle
  /\ FetchIdle
  /\ AuxIdle

DrawRecentRow ==
  /\ pc = "draw"
  /\ registry.files = << >>
  /\ RowsDrawn(registry) < MaxRows
  /\ \E row \in NextRows(registry) :
       registry' = [registry EXCEPT !.recent = Append(@, row)]
  /\ UNCHANGED <<pc, selVars, packVars, olderFailures, fetchVars, auxVars>>

\* an entry of filings.files: without a name (never requested), or named
\* and its document served or not
DrawOlderFile ==
  /\ pc = "draw"
  /\ Len(registry.files) < Len(FileNames)
  /\ \E entry \in { SubmissionsFileEntry("", 0, << >>) } \cup
                   { SubmissionsFileEntry(FileNames[Len(registry.files) + 1], status, << >>) :
                       status \in {200, 404} } :
       registry' = [registry EXCEPT !.files = Append(@, entry)]
  /\ UNCHANGED <<pc, selVars, packVars, olderFailures, fetchVars, auxVars>>

DrawOlderRow ==
  /\ pc = "draw"
  /\ registry.files # << >>
  /\ IsRetrieved(registry.files[Len(registry.files)])
  /\ RowsDrawn(registry) < MaxRows
  /\ \E row \in NextRows(registry) :
       registry' = [registry EXCEPT !.files[Len(registry.files)].recent = Append(@, row)]
  /\ UNCHANGED <<pc, selVars, packVars, olderFailures, fetchVars, auxVars>>

\* lines 172-182: a call of getRecentFilings; it throws when the response
\* for the submissions document is not OK
ListRecent ==
  /\ pc = "draw"
  /\ \/ filings' = getRecentFilings(registry) /\ pc' = "listed_recent"
     \/ pc' = "thrown" /\ UNCHANGED filings
  /\ UNCHANGED <<now, daysBack, asOf, selectedWithReasons, packVars, listVars, fetchVars, auxVars>>

\* lines 191-227: a call of getAllFilingsOptionB
ListAll ==
  /\ pc = "draw"
  /\ \/ /\ filings' = getAllFilingsOptionB(registry)
        /\ olderFailures' = FailedOlderIndexes(registry)
        /\ pc' = "listed_all"
     \/ pc' = "thrown" /\ UNCHANGED <<filings, olderFailures>>
  /\ UNCHANGED <<now, daysBack, asOf, selectedWithReasons, packVars, registry, fetchVars, auxVars>>

ListNext ==
  \/ DrawRecentRow
  \/ DrawOlderFile
  \/ DrawOlderRow
  \/ ListRecent
  \/ ListAll

SpecList == ListInit /\ [][ListNext]_vars

\* ------------------------------------------ a call of getDocsFromIndexHtml
\* rows of one index page, at most; and as many tables and loose rows
MaxIndexRows == 2

FileLink == << "", "Archives", "ex10.htm" >>
FolderLink == << "", "Archives", "" >>

\* the cells Seq | Description | Document | Type | Size of a row of type t
CellsOfType(t) ==
  << << "1" >>, << "Credit", " ", "Agreement" >>, << "ex10.htm" >>, t, << "10", " ", "KB" >> >>

\* the rows drawn: a full row; one without the size column; one with three
\* columns; one without a link; one whose link ends in "/"; types that
\* are empty, the header text (in a tag), the header text in capitals, and
\* two words to be trimmed; a header row of <th> cells
RowsOfIndex ==
  { TableRow(FileLink, CellsOfType(<< "EX-10.1" >>)),
    TableRow(FileLink, SubSeq(CellsOfType(<< "EX-10.1" >>), 1, 4)),
    TableRow(FileLink, SubSeq(CellsOfType(<< "EX-10.1" >>), 1, 3)),
    TableRow(<< >>, CellsOfType(<< "EX-10.1" >>)),
    TableRow(FolderLink, CellsOfType(<< "EX-10.1" >>)),
    TableRow(FileLink, CellsOfType(<< "&nbsp;" >>)),
    TableRow(FileLink, CellsOfType(<< "<b>", "Type", "</b>" >>)),
    TableRow(FileLink, CellsOfType(<< "TYPE" >>)),
    TableRow(FileLink, CellsOfType(<< "&nbsp;", "EX-99", "<br>", " ", "PRESS", " " >>)),
    TableRow(<< >>, << >>) }

IndexInit ==
  /\ pc = "page"
  /\ NoCallerState
  /\ userAgentSet = TRUE
  /\ requested = {}
  /\ ListIdle
  /\ FetchIdle
  /\ AuxIdle

DrawTable ==
  /\ pc = "page"
  /\ Len(indexHtml) < MaxIndexRows
  /\ \E flags \in { <<TRUE, TRUE>>, <<FALSE, TRUE>>, <<FALSE, FALSE>> } :
       indexHtml' = Append(indexHtml, TableBlock(flags[1], flags[2], << >>))
  /\ UNCHANGED <<pc, selVars, packVars, listVars, fetchVars, exhibitDocs, cacheVars, flowVars>>

DrawTableRow ==
  /\ pc = "page"
  /\ indexHtml # << >>
  /\ indexHtml[Len(indexHtml)].kind = "table"
  /\ Len(AllRows(indexHtml)) < MaxIndexRows
  /\ \E row \in RowsOfIndex :
       indexHtml' = [indexHtml EXCEPT ![Len(indexHtml)].rows = Append(@, row)]
  /\ UNCHANGED <<pc, selVars, packVars, listVars, fetchVars, exhibitDocs, cacheVars, flowVars>>

DrawLooseRow ==
  /\ pc = "page"
  /\ Len(indexHtml) < MaxIndexRows
  /\ Len(AllRows(indexHtml)) < MaxIndexRows
  /\ \E row \in RowsOfIndex : indexHtml' = Append(indexHtml, LooseRow(row))
  /\ UNCHANGED <<pc, selVars, packVars, listVars, fetchVars, exhibitDocs, cacheVars, flowVars>>

\* lines 350-405: the call; the function has no throw and no fetch
ParseIndex ==
  /\ pc = "page"
  /\ exhibitDocs' = getDocsFromIndexHtml(indexHtml)
  /\ pc' = "parsed"
  /\ UNCHANGED <<selVars, packVars, listVars, fetchVars, indexHtml, cacheVars, flowVars>>

IndexNext ==
  \/ DrawTable
  \/ DrawTableRow
  \/ DrawLooseRow
  \/ ParseIndex

SpecIndex == IndexInit /\ [][IndexNext]_vars

\* ------------------------------------------------------- getCikForTicker
\* line 124: 24 hours, in ticks of the clock
CACHE_TTL_MS == TicksPerDay

\* calls of getCikForTicker made in the life of the process, at most
MaxCalls == 3

\* the clock is followed up to two time-to-live spans
MaxClock == 2 * CACHE_TTL_MS

\* company_tickers.json as the registry serves it
TickerTable == Table({ [cik_str |-> 320193, ticker |-> << "A","A","P","L" >>] })

\* the tickers asked for: one of the table, in small letters, and one not in it
TickersAsked == { << "a","a","p","l" >>, << "Z","Z","Z","Z" >> }

\* the test with a table exactly 24 hours old taken for fresh
IsStale_OlderOnly(table, last, t) == ~table.loaded \/ t - last > CACHE_TTL_MS

\* line 128: !cachedTickers || now - lastTickerFetch >= CACHE_TTL_MS
IsStale(table, last, t) == ~table.loaded \/ t - last >= CACHE_TTL_MS

\* lines 144-149: the entry of the ticker in the table: the identifier is
\* returned, or "Ticker not found" is thrown
Resolve(table, ticker) ==
  LET t == toUpperCase(ticker)
      entries == { x \in table.entries : toUpperCase(x.ticker) = t }
  IN  IF entries = {} THEN [pc |-> "thrown", cik |-> 0]
      ELSE [pc |-> "returned", cik |-> (CHOOSE x \in entries : TRUE).cik_str]

\* a call: its argument, the clock it read at line 127, the module
\* variables as it found them, whether it sent a request, where it is
Call(ticker, t, sawTable, sawLast, fetched, at, cik) ==
  [ticker |-> ticker, now |-> t, sawTable |-> sawTable, sawLast |-> sawLast,
   fetched |-> fetched, pc |-> at, cik |-> cik]

CacheInit ==
  /\ pc = "serving"
  /\ NoCallerState
  /\ userAgentSet = TRUE
  /\ requested = {}
  /\ ListIdle
  /\ FetchIdle
  /\ AuxIdle

\* time passes
Tick ==
  /\ clock < MaxClock
  /\ clock' = clock + 1
  /\ UNCHANGED <<pc, selVars, packVars, listVars, fetchVars, indexVars, cachedTickers,
                 lastTickerFetch, calls, flowVars>>

\* lines 126-129 and 144-149: a call begins; with a fresh table it runs to
\* its end without an await, else it sends the request and waits
CallBegins ==
  /\ Len(calls) < MaxCalls
  /\ \E ticker \in TickersAsked :
       LET t == clock
       IN  IF IsStale(cachedTickers, lastTickerFetch, t)
             THEN calls' = Append(calls,
                    Call(ticker, t, cachedTickers, lastTickerFetch, TRUE, "awaiting", 0))
             ELSE LET r == Resolve(cachedTickers, ticker)
                  IN  calls' = Append(calls,
                        Call(ticker, t, cachedTickers, lastTickerFetch, FALSE, r.pc, r.cik))
  /\ UNCHANGED <<pc, selVars, packVars, listVars, fetchVars, indexVars, clock, cachedTickers,
                 lastTickerFetch, flowVars>>

\* lines 135-149: the response of a waiting call arrives: the table and the
\* clock value read at the start of the call are stored, then the ticker
\* is looked up
CallRefreshes ==
  /\ \E c \in DOMAIN calls :
       /\ calls[c].pc = "awaiting"
       /\ cachedTickers' = TickerTable
       /\ lastTickerFetch' = calls[c].now
       /\ LET r == Resolve(TickerTable, calls[c].ticker)
          IN  calls' = [calls EXCEPT ![c].pc = r.pc, ![c].cik = r.cik]
  /\ UNCHANGED <<pc, selVars, packVars, listVars, fetchVars, indexVars, clock, flowVars>>

\* lines 129-136: fetchWithRetry throws or the response is not OK: the call
\* throws and the module variables stay as they are
CallFails ==
  /\ \E c \in DOMAIN calls :
       /\ calls[c].pc = "awaiting"
       /\ calls' = [calls EXCEPT ![c].pc = "thrown"]
  /\ UNCHANGED <<pc, selVars, packVars, listVars, fetchVars, indexVars, clock, cachedTickers,
                 lastTickerFetch, flowVars>>

CacheNext ==
  \/ Tick
  \/ CallBegins
  \/ CallRefreshes
  \/ CallFails

SpecCache == CacheInit /\ [][CacheNext]_vars

\* ----------------------------------------- the requests of one pack build
\* The handler as a sequence of awaited calls: `stage` is the statement it
\* is at, pc the position inside the call of fetchWithRetry made there
\* ("ready": no call under way).
EndOfRequest == Stage("done", 0, 0)

\* after the documents of filing f: the next selected filing, or the end
\* of the loop (lines 240, 535-577)
AfterFiling(f) ==
  { Stage("primary", f + 1, 0) : g \in { h \in {f} : h < MaxFilings } } \cup { EndOfRequest }

\* after exhibit d of filing f: the next exhibit, or what follows the filing
AfterExhibit(f, d) ==
  { Stage("exhibit", f, d + 1) : e \in { h \in {d} : h < MaxDocs } } \cup AfterFiling(f)

\* after the retrieval of the history: the selection is empty (404) or the
\* loop begins with the first selected filing
AfterHistory == { Stage("primary", 1, 0), EndOfRequest }

\* the statements that may follow `st` when the call made there returned a
\* response that is OK (or no call was needed), and when it did not
Continuations(st, ok) ==
  CASE st.at = "ticker" ->
         IF ok THEN { Stage("history", 0, 0), EndOfRequest } ELSE { EndOfRequest }
    [] st.at = "history" ->
         IF ok THEN { Stage("older", 0, 1) } \cup AfterHistory ELSE { EndOfRequest }
    [] st.at = "older" ->
         { Stage("older", 0, st.d + 1) : e \in { h \in {st.d} : h < Len(FileNames) } }
         \cup AfterHistory
    [] st.at = "primary" ->
         IF ok THEN { Stage("index", st.f, 0) } ELSE { EndOfRequest }
    [] st.at = "index" ->
         IF ok THEN { Stage("exhibit", st.f, 1) } \cup AfterFiling(st.f)
               ELSE AfterFiling(st.f)
    [] st.at = "exhibit" -> AfterExhibit(st.f, st.d)
    [] OTHER -> { }

\* what the call of the statement asks for
UrlOf(st) ==
  CASE st.at = "ticker" -> "https://www.sec.gov/files/company_tickers.json"
    [] st.at \in { "history", "older" } -> "https://data.sec.gov/submissions/"
    [] OTHER -> "https://www.sec.gov/Archives/edgar/data/"

Request_(st, attempt) == [stage |-> st, attempt |-> attempt]

\* the handler going on without waiting for the call it made
Awaited_NotWaitedFor == pc \in { "ready", "sent" }

\* `await`: the handler goes on when the call it made has ended
Awaited == pc = "ready"

FlowInit ==
  /\ pc = "ready"
  /\ NoCallerState
  /\ userAgentSet = TRUE
  /\ requested = {}
  /\ ListIdle
  /\ FetchIdle
  /\ IndexIdle
  /\ CacheIdle
  /\ stage = Stage("ticker", 0, 0)
  /\ inFlight = {}

\* a statement that needs no request: the ticker table is cached and fresh
\* (part_000:128), the exhibit is skipped before its download
\* (part_001:349-450)
FlowPasses ==
  /\ Awaited
  /\ stage.at \in { "ticker", "exhibit" }
  /\ \E next \in Continuations(stage, TRUE) : stage' = next
  /\ UNCHANGED <<pc, selVars, packVars, listVars, fetchVars, indexVars, cacheVars, inFlight>>

\* the statement calls fetchWithRetry (through getCikForTicker, the
\* retrieval of the history, downloadAsBuffer) with the default retries
FlowCalls ==
  /\ Awaited
  /\ stage.at \notin { "done", "none" }
  /\ pc' = "loop"
  /\ url' = UrlOf(stage)
  /\ retries' = DefaultRetries
  /\ tryIdx' = 0
  /\ UNCHANGED <<selVars, packVars, listVars, fetchLog, fetchResult, auxVars>>

\* part_000:82-84: the loop sends the request of attempt i, or ends after
\* the last attempt and the call throws (115)
FlowSends ==
  /\ pc = "loop"
  /\ IF tryIdx < retries
       THEN /\ inFlight' = inFlight \cup { Request_(stage, tryIdx) }
            /\ pc' = "sent"
            /\ UNCHANGED stage
       ELSE /\ pc' = "ready"
            /\ \E next \in Continuations(stage, FALSE) : stage' = next
            /\ UNCHANGED inFlight
  /\ UNCHANGED <<selVars, packVars, listVars, fetchVars, indexVars, cacheVars>>

\* part_000:84-112: the request is answered or fails: the call returns the
\* response (OK, or a status that is not retried), throws on the last
\* attempt, or waits before the next attempt
FlowAnswered ==
  /\ pc = "sent"
  /\ inFlight' = inFlight \ { Request_(stage, tryIdx) }
  /\ \E met \in { "ok", "not retried", "429 or 5xx", "threw" } :
       IF met \in { "ok", "not retried" } \/ (met = "threw" /\ tryIdx = retries - 1)
         THEN /\ pc' = "ready"
              /\ \E next \in Continuations(stage, met = "ok") : stage' = next
              /\ UNCHANGED tryIdx
         ELSE /\ pc' = "backoff"
              /\ tryIdx' = tryIdx + 1
              /\ UNCHANGED stage
  /\ UNCHANGED <<selVars, packVars, listVars, url, retries, fetchLog, fetchResult,
                 indexVars, cacheVars>>

\* part_000:93, 102, 111: the wait before the next attempt is over
FlowWakes ==
  /\ pc = "backoff"
  /\ pc' = "loop"
  /\ UNCHANGED <<selVars, packVars, listVars, fetchVars, auxVars>>

FlowNext ==
  \/ FlowPasses
  \/ FlowCalls
  \/ FlowSends
  \/ FlowAnswered
  \/ FlowWakes

SpecFlow == FlowInit /\ [][FlowNext]_vars

\* ------------------------------------------------- claims on the selector
Picked == pc = "picked"

\* the calendar day of an instant (UTC)
DayOf(t) == t \div TicksPerDay

\* the reference instant of the call: the as-of date, or the clock without one
HasReference == asOf.kind # "invalid"
RefInstant == IF asOf.kind = "date" THEN asOf.day * TicksPerDay ELSE now

IsWindowForm(f) == normForm(f.form) \in {F8K, F4}

InWindowOfCall(f) ==
  /\ f.filingDate * TicksPerDay >= RefInstant - daysBack * TicksPerDay
  /\ f.filingDate * TicksPerDay <= RefInstant

SelectedAccessions ==
  { selectedWithReasons[i].filing.accessionNumber : i \in DOMAIN selectedWithReasons }

\* C1: every filing the selector returns is dated on or before the as-of
\* date, or on or before the current date when no as-of date is given.
C1_NoFilingAfterAsOf ==
  Picked /\ HasReference =>
    \A i \in DOMAIN selectedWithReasons :
      selectedWithReasons[i].filing.filingDate <= DayOf(RefInstant)

\* a call with an as-of date that selected something from a history holding
\* a filing dated after it
C1_Witness ==
  /\ Picked
  /\ asOf.kind = "date"
  /\ selectedWithReasons # << >>
  /\ \E i \in DOMAIN filings :
       /\ filings[i].filingDate > asOf.day
       /\ normForm(filings[i].form) = F10K

\* C2: the returned list never holds two entries with the same accession
\* identifier, also when the history repeats accession identifiers.
C2_NoDuplicateAccession ==
  Picked =>
    \A i, j \in DOMAIN selectedWithReasons :
      selectedWithReasons[i].filing.accessionNumber
        = selectedWithReasons[j].filing.accessionNumber => i = j

\* a history in which two rules claim filings with one accession identifier
C2_Witness ==
  /\ Picked
  /\ Len(selectedWithReasons) = 1
  /\ \E i, j \in DOMAIN filings :
       /\ i < j
       /\ filings[i].accessionNumber = filings[j].accessionNumber
       /\ normForm(filings[i].form) = F10K
       /\ normForm(filings[j].form) = F8K
       /\ InWindowOfCall(filings[i]) /\ InWindowOfCall(filings[j])

\* C10: every 8-K and Form 4 dated within [asOf - windowDays, asOf], both
\* ends included, is in the result, however many there are, and no 8-K or
\* Form 4 dated before asOf - windowDays is in it.
C10_WindowRules ==
  Picked /\ HasReference =>
    /\ \A i \in DOMAIN filings :
         IsWindowForm(filings[i]) /\ InWindowOfCall(filings[i])
           => filings[i].accessionNumber \in SelectedAccessions
    /\ \A i \in DOMAIN selectedWithReasons :
         IsWindowForm(selectedWithReasons[i].filing)
           => InWindowOfCall(selectedWithReasons[i].filing)

\* an 8-K dated exactly asOf - windowDays is selected while an older 8-K of
\* the same history is not
C10_Witness ==
  /\ Picked
  /\ asOf.kind = "date"
  /\ Len(filings) = 2
  /\ filings[1].accessionNumber # filings[2].accessionNumber
  /\ \A i \in 1..2 : normForm(filings[i].form) = F8K
  /\ filings[1].filingDate = asOf.day - daysBack
  /\ filings[2].filingDate < asOf.day - daysBack
  /\ Len(selectedWithReasons) = 1
  /\ selectedWithReasons[1].filing = filings[1]

\* the rule a form code falls under, numbered in the order the rules are
\* applied; 0 for a form code no rule claims
FamilyOf(form) ==
  LET f == normForm(form)
  IN  CASE f = F10K -> 1
        [] f = F10Q -> 2
        [] f = F8K -> 3
        [] isS3(form) -> 4
        [] isProspectus(form) -> 5
        [] f = FEFFECT -> 6
        [] isProxy(form) -> 7
        [] f = FS8 -> 8
        [] f = F4 -> 9
        [] OTHER -> 0

\* the rule named by the reason of a selected entry
RuleOfReason(reason) ==
  CASE reason.text = "latest 10-K" -> 1
    [] reason.text = "10-Q (top 2) #" -> 2
    [] reason.text = "8-K within d" -> 3
    [] reason.text = "latest S-3/S-3A" -> 4
    [] reason.text = "latest 424B*" -> 5
    [] reason.text = "latest EFFECT" -> 6
    [] reason.text = "latest Proxy" -> 7
    [] reason.text = "latest S-8" -> 8
    [] reason.text = "Form 4 within d" -> 9
    [] OTHER -> 0

NewestRules == {1, 2, 4, 5, 6, 7, 8}
WindowRules == {3, 9}
QuotaOf(r) == IF r = 2 THEN 2 ELSE 1

IsEligible(f) == HasReference /\ f.filingDate * TicksPerDay <= RefInstant

\* the rule of each filing of the history (0: ineligible or unclaimed form)
EligibleFamilies ==
  [i \in DOMAIN filings |-> IF IsEligible(filings[i]) THEN FamilyOf(filings[i].form) ELSE 0]

\* positions in the history of the eligible filings of the family of rule
\* r, in list order
EligibleOfFamily(fam, r) == {i \in DOMAIN fam : fam[i] = r}

\* the first QuotaOf(r) of them
NewestEligible(fam, r) ==
  LET e == EligibleOfFamily(fam, r)
  IN  {i \in e : Cardinality({j \in e : j < i}) < QuotaOf(r)}

\* positions in the history of the filings rule r claims
RuleEntries(fam, r) ==
  IF r \in WindowRules
    THEN {i \in EligibleOfFamily(fam, r) : InWindowOfCall(filings[i])}
    ELSE NewestEligible(fam, r)

RuleTable == LET fam == EligibleFamilies IN [r \in 1..9 |-> RuleEntries(fam, r)]

\* the filings at the positions ps, in list order
FilingsAt(ps) ==
  LET s == SelectSeq([i \in DOMAIN filings |-> i], LAMBDA i : i \in ps)
  IN  [k \in 1..Len(s) |-> filings[s[k]]]

\* the selected filings of the family of rule r, in the order of the result
SelectedOfFamily(r) ==
  LET s == SelectSeq(selectedWithReasons, LAMBDA x : FamilyOf(x.filing.form) = r)
  IN  [i \in 1..Len(s) |-> s[i].filing]

DistinctAccessions ==
  \A i, j \in DOMAIN filings :
    filings[i].accessionNumber = filings[j].accessionNumber => i = j

\* C11: given a history sorted newest first, for each "newest" rule the
\* selection holds the first k eligible filings of the family (k = 2 for
\* 10-Q, k = 1 for the others; fewer when fewer exist) and no other filing
\* of the family; filings being identified by accession identifier, the
\* selected filings of the family are exactly those k, in list order, when
\* the accession identifiers of the history are distinct. Filings dated
\* after the as-of date do not count.
C11_NewestOfFamily ==
  Picked =>
    LET table == RuleTable
        accs == SelectedAccessions
        distinct == DistinctAccessions
    IN  \A r \in NewestRules :
          LET newest == FilingsAt(table[r])
              chosen == SelectedOfFamily(r)
          IN  /\ \A i \in DOMAIN newest : newest[i].accessionNumber \in accs
              /\ \A i \in DOMAIN chosen : \E j \in DOMAIN newest : chosen[i] = newest[j]
              /\ distinct => chosen = newest

\* three eligible 10-Qs with distinct accession identifiers, of which the
\* two newest are selected and the third is not
C11_Witness ==
  /\ Picked
  /\ DistinctAccessions
  /\ Cardinality(EligibleOfFamily(EligibleFamilies, 2)) = 3
  /\ Len(selectedWithReasons) = 2
  /\ selectedWithReasons[1].filing = filings[1]
  /\ selectedWithReasons[2].filing = filings[2]

\* position in the history of the first filing with accession identifier
\* acc among the positions ps (0 when there is none)
FirstClaimIn(ps, acc) ==
  LET hits == {k \in ps : filings[k].accessionNumber = acc}
  IN  IF hits = {} THEN 0 ELSE CHOOSE k \in hits : \A m \in hits : k <= m

\* C12: the result lists the filings in the order the rules are applied
\* (10-K, 10-Qs, 8-Ks in window, S-3 family, 424B*, EFFECT, proxy family,
\* S-8, Form 4s in window) and, within one rule, in list order; an accession
\* identifier claimed by several rule entries appears once, as the first
\* entry of the first rule that claimed it and with that rule's reason.
C12_RuleOrder ==
  Picked =>
    LET sel == selectedWithReasons
        table == RuleTable
        rule == [i \in DOMAIN sel |-> RuleOfReason(sel[i].reason)]
        acc == [i \in DOMAIN sel |-> sel[i].filing.accessionNumber]
        \* where rule r first claims the accession identifier of entry i
        claim == [i \in DOMAIN sel |-> [r \in 1..9 |-> FirstClaimIn(table[r], acc[i])]]
    IN  /\ \A i \in DOMAIN sel :
             /\ rule[i] \in 1..9
             /\ claim[i][rule[i]] # 0
             /\ sel[i].filing = filings[claim[i][rule[i]]]
             /\ \A r \in 1..9 : claim[i][r] # 0 => rule[i] <= r
        /\ \A r \in 1..9 : \A k \in table[r] :
             \E i \in DOMAIN sel : acc[i] = filings[k].accessionNumber
        /\ \A i, j \in DOMAIN sel :
             /\ acc[i] = acc[j] => i = j
             /\ i < j => rule[i] <= rule[j]
             /\ i < j /\ rule[i] = rule[j] => claim[i][rule[i]] < claim[j][rule[j]]

\* a Form 4 newer than the two 10-Qs of the history is listed after both:
\* the order is that of the rules, not of the dates
C12_Witness ==
  /\ Picked
  /\ Len(selectedWithReasons) = 3
  /\ selectedWithReasons[1].reason = Reason("10-Q (top 2) #", 1)
  /\ selectedWithReasons[2].reason = Reason("10-Q (top 2) #", 2)
  /\ selectedWithReasons[3].reason.text = "Form 4 within d"
  /\ selectedWithReasons[1].filing.filingDate < selectedWithReasons[3].filing.filingDate
  /\ selectedWithReasons[3].filing = filings[1]

\* ------------------------------------------------ claims on the pack build
Attempts == { attempts[i] : i \in DOMAIN attempts }
Rows == { inventoryLines[i] : i \in DOMAIN inventoryLines }

\* the bytes of the exhibits accepted so far, summed over the iterations
AcceptedBytes ==
  LET Sum[k \in 0..Len(attempts)] ==
        IF k = 0 THEN 0
        ELSE Sum[k - 1] + (IF attempts[k].status = "DOWNLOADED"
                             THEN attempts[k].byteLength ELSE 0)
  IN  Sum[Len(attempts)]

\* C3: in non-deep mode the actual bytes of all exhibits accepted so far,
\* over all filings of the run, never exceed maxTotalBytes, whatever sizes
\* the registry reported.
C3_AcceptedBytesWithinCap ==
  ~deep => /\ exhibitsBytesUsed = AcceptedBytes
           /\ AcceptedBytes <= maxMb * 1024 * 1024

\* an exhibit whose reported size fitted the remaining budget was refused
\* after download because its actual size did not
C3_Witness ==
  /\ ~deep
  /\ exhibitsBytesUsed > 0
  /\ \E a \in Attempts :
       /\ a.reason = "cap: would exceed maxTotalMB"
       /\ a.usedBefore + a.reported <= maxTotalBytes

\* the rows of filing k of the selection with status DOWNLOADED
DownloadedRowsOf(k) ==
  { i \in DOMAIN inventoryLines :
      /\ inventoryLines[i].filing = selected[k]
      /\ inventoryLines[i].status = "DOWNLOADED" }

C5_Original ==
  \A r \in Rows :
    r.docType \in JunkTypesDrawn => r.status = "SKIPPED" /\ r.reason = "junk (XBRL noise)"

\* C5 (amended): a junk-typed exhibit is never downloaded, in deep and in
\* non-deep mode and whatever budget remains; it is recorded SKIPPED, as
\* junk when exhibits are enabled and as "exhibits disabled" when not.
C5_JunkNeverDownloaded ==
  /\ \A r \in Rows :
       r.docType \in JunkTypesDrawn =>
         /\ r.status = "SKIPPED"
         /\ r.reason = IF includeExhibits THEN "junk (XBRL noise)" ELSE "exhibits disabled"
  /\ \A a \in Attempts :
       a.docType \in JunkTypesDrawn => ~a.fetched /\ a.status = "SKIPPED"
  /\ \A k \in 1..Len(docsOf) : \A j \in DOMAIN docsOf[k].docs :
       docsOf[k].docs[j].type \in JunkTypesDrawn =>
         \A e \in DOMAIN archive : archive[e] # ExhibitEntry(selected[k], docsOf[k].docs[j])

\* deep mode: a junk exhibit is skipped as junk while another exhibit of
\* the same filing is downloaded
C5_Witness ==
  /\ deep
  /\ \E a, b \in Attempts :
       /\ a.filing = b.filing
       /\ a.docType \in JunkTypesDrawn /\ a.reason = "junk (XBRL noise)"
       /\ b.status = "DOWNLOADED"

\* the rows of the inventory for file `name` of filing k of the selection
RowsOfDoc(k, name) ==
  { i \in DOMAIN inventoryLines :
      inventoryLines[i].filing = selected[k] /\ inventoryLines[i].filename = name }

\* C6: for every selected filing whose index page was retrieved, every row
\* extracted from it has exactly one inventory row, DOWNLOADED or SKIPPED
\* with a non-empty reason, with exhibits on or off, deep or not, and
\* whichever downloads fail.
C6_EveryDocOneRow ==
  \A k \in 1..Len(docsOf) :
    k < fIdx /\ docsOf[k].retrieved =>
      \A j \in DOMAIN docsOf[k].docs :
        LET rs == RowsOfDoc(k, docsOf[k].docs[j].filename)
        IN  /\ Cardinality(rs) = 1
            /\ \A i \in rs :
                 /\ inventoryLines[i].docType = docsOf[k].docs[j].type
                 /\ \/ inventoryLines[i].status = "DOWNLOADED"
                    \/ /\ inventoryLines[i].status = "SKIPPED"
                       /\ inventoryLines[i].reason # ""

\* an archive produced after one exhibit was downloaded and the download of
\* another failed
C6_Witness ==
  /\ response = ZipResponse
  /\ \E a, b \in Attempts : a.status = "DOWNLOADED" /\ b.reason = "download failed"
  /\ Len(inventoryLines) = DocsSeen

ValidationErrors ==
  { "Missing ticker",
    "Invalid daysBack parameter (must be a number)", "daysBack out of range",
    "Invalid maxEx parameter (must be a number)", "maxEx out of range",
    "Invalid maxMb parameter (must be a number)", "maxMb out of range" }

\* the fatal outcomes the claim allows: bad input, missing configuration,
\* the registry lookups before selection failing, an empty selection
ClaimedFatal ==
  /\ response.url = ""
  /\ response.body \in ValidationErrors \cup
       { "Missing SEC_USER_AGENT in .env.local",
         "Error: Ticker not found in SEC mapping",
         "Error: Failed to fetch submissions JSON",
         "No filings found for pack selection." }

IsFatal == response.status \in {400, 404, 500}

\* C7 (as claimed): a pack build ends in a fatal error only on missing
\* configuration, an unresolvable ticker or an empty selection; no failed
\* download of a document of a selected filing ends the run.
C7_Original == IsFatal => ClaimedFatal

\* C7 (amended): a pack build ends in a fatal error only on bad input,
\* missing configuration, an unresolvable ticker, a failed retrieval of the
\* filing history, an empty selection, or a failed download of a selected
\* filing's primary document; a failed index page or exhibit download is
\* recorded in the audit entries and never ends the run.
C7_FatalOnlyOn ==
  /\ IsFatal => ClaimedFatal \/ response = DownloadError("primary document")
  /\ \A k \in 1..Len(docsOf) :
       ~docsOf[k].retrieved =>
         /\ \E i \in DOMAIN indexNotFound : indexNotFound[i] = selected[k]
         /\ \E r \in Rows :
              /\ r.filing = selected[k]
              /\ r.reason = "index not found (cannot enumerate docs)"
  /\ \A a \in Attempts :
       a.fetched /\ a.status = "SKIPPED" /\ a.reason # "cap: would exceed maxTotalMB"
         => \E r \in Rows :
              /\ r.filing = selected[a.filing]
              /\ r.filename = a.filename
              /\ r.reason = "download failed"

\* the archive is produced after an index page and an exhibit failed
C7_Witness ==
  /\ response = ZipResponse
  /\ indexNotFound # << >>
  /\ \E a \in Attempts : a.reason = "download failed"

FetchEnded == pc \in {"returned", "thrown"}

\* attempt met 429, a 5xx status or a network error
MetRetryable(met) ==
  \/ met.kind = "error"
  \/ met.kind = "response" /\ (met.status = 429 \/ met.status \in 500..599)

\* C13 (as claimed): a call makes at most `retries` request attempts, goes
\* on after an attempt only when it met 429, 5xx or a network error, returns
\* the response of an attempt that met anything else at once, and when the
\* attempts are used up fails with an error that names the url.
C13_Original ==
  /\ Len(fetchLog) <= retries
  /\ \A k \in DOMAIN fetchLog :
       k < Len(fetchLog) \/ ~FetchEnded => MetRetryable(fetchLog[k].met)
  /\ \A k \in DOMAIN fetchLog :
       ~MetRetryable(fetchLog[k].met) =>
         /\ k = Len(fetchLog)
         /\ pc = "returned"
         /\ fetchResult = FetchResult("response", fetchLog[k].met.status, "", url)
  /\ pc = "thrown" /\ assertEnv => Len(fetchLog) = retries /\ fetchResult.url = url

\* C14 (as claimed): without the client-identification setting a pack
\* request fails with status 500 and a registry-client fetch throws the
\* configuration error, before any outbound request.
C14_Original ==
  ~userAgentSet =>
    /\ requested = {} /\ fetchLog = << >>
    /\ pc = "done" => response.status = 500
    /\ pc \in {"loop", "returned", "thrown"} =>
         pc = "thrown" /\ fetchResult = MissingUserAgentError

\* C14 (amended): without the client-identification setting a pack request
\* that passes validation fails with status 500 (one that does not is
\* rejected with 400 as with the setting), and every registry-client fetch
\* throws the configuration error; in each case no outbound request is made.
C14_NoRequestWithoutUserAgent ==
  ~userAgentSet =>
    /\ requested = {} /\ fetchLog = << >>
    /\ pc \in {"start", "done", "call", "thrown"}
    /\ pc = "done" =>
         response = IF ValidationError = ""
                      THEN Response(500, "Missing SEC_USER_AGENT in .env.local")
                      ELSE Response(400, ValidationError)
    /\ pc = "thrown" => fetchResult = MissingUserAgentError

\* a fetch has thrown the configuration error
C14_Witness ==
  /\ ~userAgentSet
  /\ pc = "thrown"
  /\ fetchResult = MissingUserAgentError
  /\ retries = DefaultRetries

\* ------------------------------------------- claims on the request surface
\* the parameter is present and is no number, or a number outside lo..hi
IsRejected(p, lo, hi) ==
  \/ p.kind = "text"
  \/ p.kind = "number" /\ (p.n < lo \/ p.n > hi)

HasRejectedNumber ==
  \/ IsRejected(req.daysBack, 30, 730)
  \/ IsRejected(req.maxEx, 1, 100)
  \/ IsRejected(req.maxMb, 5, 500)

\* the number the request supplies for a parameter, or its default
Supplied(p, fallback) == IF p.kind = "absent" THEN fallback ELSE p.n

\* C15: a pack request in which daysBack, maxEx or maxMb is non-numeric or
\* outside its range (30-730, 1-100, 5-500) is rejected with status 400
\* before any network call is made and before any archive is opened; an
\* accepted value is used exactly as supplied, never clamped into range.
C15_RejectedNotClamped ==
  /\ HasRejectedNumber =>
       /\ pc \in {"start", "done"}
       /\ pc = "done" => response.status = 400
       /\ requested = {}
       /\ archive = << >>
  /\ pc \notin {"start", "done", "call", "loop", "returned", "thrown"} =>
       /\ daysBack = Supplied(req.daysBack, 365)
       /\ ~deep => /\ maxPerFiling = Supplied(req.maxEx, 25)
                   /\ maxTotalBytes = Supplied(req.maxMb, 75) * 1024 * 1024

\* a request with maxMb one below its range was rejected
C15_Witness ==
  /\ pc = "done"
  /\ response = Response(400, "maxMb out of range")
  /\ req.maxMb = Num(4)
  /\ userAgentSet

\* C16: when the selection is empty the pack request ends with status 404,
\* an outcome distinct from 400 and 500, and no filing document, index page
\* or exhibit is downloaded and no archive is produced; a request that
\* selected a filing does not end with 404.
C16_EmptySelectionNotFound ==
  /\ response.status = 404 =>
       /\ pc = "done"
       /\ selectedWithReasons = << >>
       /\ pickFilingsPackWithReasons(filings, daysBack, asOf, now) = << >>
       /\ requested \subseteq {"registry"}
       /\ archive = << >>
       /\ docsOf = << >> /\ attempts = << >> /\ inventoryLines = << >>
  /\ pc \in {"main", "index", "exhibit"} => selectedWithReasons # << >>
  /\ pc = "done" /\ response.status \notin {400, 500} =>
       (selectedWithReasons = << >> <=> response.status = 404)

\* a history whose filings are all dated after the as-of date or before the
\* window of the 8-K rule ends with 404
C16_Witness ==
  /\ response.status = 404
  /\ Len(filings) = 2
  /\ asOf.kind = "date"
\* ------------------------------------------------- claims on the exhibit loop
\* C19: when the download of an accepted exhibit fails, the exhibit gets an
\* inventory row SKIPPED with reason "download failed" and a line in the
\* report list, the per-filing accepted count and the cumulative accepted
\* bytes are left as they were, nothing is added to the archive, no response
\* is returned, and the loop goes on with the next exhibit of the same filing
\* (with the next filing after the last exhibit).
IsDownloadFailureStep ==
  /\ pc = "exhibit"
  /\ Len(attempts') = Len(attempts) + 1
  /\ attempts'[Len(attempts')].reason = "download failed"

C19_DownloadFailureSkips ==
  [][ IsDownloadFailureStep =>
        LET f == selected[fIdx]
            d == scored[dIdx].d
        IN  /\ attempts'[Len(attempts')].fetched
            /\ SkipBeforeDownload(scored[dIdx]) = ""
            /\ inventoryLines' = Append(inventoryLines,
                 InventoryRow(f, d.type, d.filename, d.sizeText, "SKIPPED", "download failed"))
            /\ skippedByFilter' = Append(skippedByFilter, ReportLine(f, d, "download failed"))
            /\ downloadedCount' = downloadedCount
            /\ exhibitsBytesUsed' = exhibitsBytesUsed
            /\ downloadedExhibits' = downloadedExhibits
            /\ archive' = archive
            /\ response' = response
            /\ IF dIdx < Len(scored)
                 THEN pc' = "exhibit" /\ fIdx' = fIdx /\ dIdx' = dIdx + 1 /\ scored' = scored
                 ELSE pc' = "main" /\ fIdx' = fIdx + 1 ]_vars

\* a failed download followed by an accepted exhibit of the same filing, the
\* accepted count between them unchanged
C19_Witness ==
  \E i, j \in DOMAIN attempts :
    /\ j = i + 1
    /\ attempts[i].filing = attempts[j].filing
    /\ attempts[i].reason = "download failed"
    /\ attempts[j].status = "DOWNLOADED"
    /\ attempts[j].countBefore = attempts[i].countBefore
    /\ attempts[j].usedBefore = attempts[i].usedBefore

\* the types drawn that are neither junk nor high-signal
OtherTypesDrawn == { EX21 }

NotHighSignal == "not high-signal (non-deep mode)"

\* C20 (as claimed): in non-deep mode an exhibit that is neither junk nor
\* high-signal is always recorded SKIPPED as not high-signal.
C20_Original ==
  ~deep =>
    \A r \in Rows :
      r.docType \in OtherTypesDrawn => r.status = "SKIPPED" /\ r.reason = NotHighSignal

\* C20 (amended): in non-deep mode an exhibit that is neither junk nor
\* high-signal is never downloaded, whether the per-filing and total-byte
\* caps have capacity left or are used up; it is recorded SKIPPED, as not
\* high-signal when exhibits are enabled and as "exhibits disabled" when not.
C20_OtherNeverDownloaded ==
  ~deep =>
    /\ \A r \in Rows :
         r.docType \in OtherTypesDrawn =>
           /\ r.status = "SKIPPED"
           /\ r.reason = IF includeExhibits THEN NotHighSignal ELSE "exhibits disabled"
    /\ \A a \in Attempts :
         a.docType \in OtherTypesDrawn =>
           ~a.fetched /\ a.status = "SKIPPED" /\ a.reason = NotHighSignal
    /\ \A k \in 1..Len(docsOf) : \A j \in DOMAIN docsOf[k].docs :
         docsOf[k].docs[j].type \in OtherTypesDrawn =>
           \A e \in DOMAIN archive : archive[e] # ExhibitEntry(selected[k], docsOf[k].docs[j])

\* non-deep mode: one such exhibit skipped when the per-filing cap was used
\* up, another when both caps had capacity left
C20_Witness ==
  /\ ~deep
  /\ \E a, b \in Attempts :
       /\ a.docType \in OtherTypesDrawn /\ a.reason = NotHighSignal
       /\ a.countBefore >= maxEx
       /\ b.docType \in OtherTypesDrawn /\ b.reason = NotHighSignal
       /\ b.countBefore < maxEx /\ b.usedBefore < maxTotalBytes

\* ------------------------------------------------ claims on the audit trail
\* what a line of a report file is about: a filing (its accession number),
\* a document of its index (0 for none), an older history document ("" for
\* none); and what the line says of it
Subject(acc, doc, history) == [acc |-> acc, doc |-> doc, history |-> history]
AuditLine(file, subject, note) == [file |-> file, subject |-> subject, note |-> note]

\* FILINGS_REPORT.csv (part_001:135-149): one line per filing retrieved
FilingsReportLines ==
  { AuditLine("FILINGS_REPORT.csv", Subject(filings[i].accessionNumber, 0, ""),
              IF \E k \in DOMAIN selected :
                   selected[k].accessionNumber = filings[i].accessionNumber
                THEN "SELECTED" ELSE "NOT_SELECTED") : i \in DOMAIN filings }

\* MANIFEST.txt (part_001:202-234): the request and one line per selected
\* filing
ManifestLines ==
  { AuditLine("MANIFEST.txt", Subject(selected[k].accessionNumber, 0, ""), "included") :
      k \in DOMAIN selected }

\* DOCS_INVENTORY.csv (part_001:536): the rows of inventoryLines
InventoryFileLines ==
  { AuditLine("DOCS_INVENTORY.csv",
              Subject(inventoryLines[i].filing.accessionNumber,
                      inventoryLines[i].filename, ""),
              inventoryLines[i].reason) : i \in DOMAIN inventoryLines }

\* EXHIBITS_REPORT.txt (part_001:539-564): the three lists
ExhibitsReportLines ==
  { AuditLine("EXHIBITS_REPORT.txt", Subject(indexNotFound[i].accessionNumber, 0, ""),
              "INDEX NOT FOUND") : i \in DOMAIN indexNotFound }
  \cup
  { AuditLine("EXHIBITS_REPORT.txt",
              Subject(skippedByCap[i].filing.accessionNumber, skippedByCap[i].filename, ""),
              skippedByCap[i].note) : i \in DOMAIN skippedByCap }
  \cup
  { AuditLine("EXHIBITS_REPORT.txt",
              Subject(skippedByFilter[i].filing.accessionNumber,
                      skippedByFilter[i].filename, ""),
              skippedByFilter[i].note) : i \in DOMAIN skippedByFilter }

\* the lines of the report files of the archive (FILINGS_MISSING.txt and the
\* checklist speak of form types and of no filing or document)
AuditLines ==
  { l \in FilingsReportLines \cup ManifestLines \cup InventoryFileLines
           \cup ExhibitsReportLines :
      \E e \in DOMAIN archive : archive[e] = ReportEntry(l.file) }

IsReported(subject, notes) ==
  \E l \in AuditLines : l.subject = subject /\ l.note \in notes

\* the partial failures of the build and whether a report file has them
IndexFailuresReported ==
  \A k \in 1..Len(docsOf) :
    ~docsOf[k].retrieved =>
      IsReported(Subject(selected[k].accessionNumber, 0, ""),
                 {"index not found (cannot enumerate docs)", "INDEX NOT FOUND"})

EmptyIndexesReported ==
  \A k \in 1..Len(docsOf) :
    docsOf[k].retrieved /\ docsOf[k].docs = << >> =>
      IsReported(Subject(selected[k].accessionNumber, 0, ""),
                 {"index parsed but no docs rows found (parser/table variance)"})

DownloadFailuresReported ==
  \A a \in Attempts :
    a.reason = "download failed" =>
      IsReported(Subject(selected[a.filing].accessionNumber, a.filename, ""),
                 {"download failed"})

\* any line about the document will do, whatever it says
HistoryFailuresReported ==
  \A i \in DOMAIN olderFailures :
    \E l \in AuditLines : l.subject.history = olderFailures[i]

\* C17 (as claimed): in the archive of a finished build every partial
\* failure has an entry in a report file: an older history document not
\* retrieved in full-history mode, an index page not retrieved, an index
\* with no rows, an exhibit whose download failed.
C17_Original ==
  response = ZipResponse =>
    /\ HistoryFailuresReported
    /\ IndexFailuresReported
    /\ EmptyIndexesReported
    /\ DownloadFailuresReported

\* the same without the older history documents
C17_FailuresOfSelectedReported ==
  response = ZipResponse =>
    /\ IndexFailuresReported
    /\ EmptyIndexesReported
    /\ DownloadFailuresReported

\* ------------------------------------------- claims on the retrieval modes
NewestFirst(fs) == \A i \in 1..(Len(fs) - 1) : fs[i].filingDate >= fs[i + 1].filingDate

\* how many times x occurs in sequence s
Occurrences(s, x) == Cardinality({ i \in DOMAIN s : s[i] = x })

IsComplete(row) ==
  row.form # << >> /\ row.accessionNumber # 0 /\ row.filingDate # -1
    /\ row.primaryDocument # ""

\* the documents of the registry in the order they are read: 0 is the
\* recent window, k the k-th older document, empty when it is not retrievable
DocumentRows(k) ==
  IF k = 0 THEN registry.recent
  ELSE IF registry.files[k].name # "" /\ registry.files[k].status \in 200..299
    THEN registry.files[k].recent
    ELSE << >>

Positions ==
  { p \in (0..Len(registry.files)) \X (1..MaxRows) :
      p[2] <= Len(DocumentRows(p[1])) /\ IsComplete(DocumentRows(p[1])[p[2]]) }

Before(p, q) == p[1] < q[1] \/ (p[1] = q[1] /\ p[2] < q[2])

RowAt(p) == DocumentRows(p[1])[p[2]]

\* the first position of each accession number
FirstOccurrences ==
  { p \in Positions :
      \A q \in Positions :
        Before(q, p) => RowAt(q).accessionNumber # RowAt(p).accessionNumber }

\* C18: both retrieval modes return the filings by non-increasing filing
\* date. Recent mode returns the rows of the recent window. Full-history
\* mode returns the rows of the recent window and of every older document
\* that can be retrieved, each accession number once, the first occurrence
\* kept. (Rows with an empty field are no filings and are left out.)
C18_NewestFirstAndUnion ==
  /\ pc \in {"listed_recent", "listed_all"} => NewestFirst(filings)
  /\ pc = "listed_recent" =>
       /\ Len(filings) = Cardinality({ p \in Positions : p[1] = 0 })
       /\ \A p \in Positions :
            p[1] = 0 => Occurrences(filings, RowAt(p)) = Occurrences(registry.recent, RowAt(p))
  /\ pc = "listed_all" =>
       /\ Len(filings) = Cardinality(FirstOccurrences)
       /\ \A p \in FirstOccurrences : \E i \in DOMAIN filings : filings[i] = RowAt(p)
       /\ \A i, j \in DOMAIN filings :
            filings[i].accessionNumber = filings[j].accessionNumber => i = j

\* full-history mode: an older document was not retrievable, another held a
\* second copy of a filing of the recent window under another date, which
\* was dropped, and a filing newer than the recent one, which was put first
C18_Witness ==
  /\ pc = "listed_all"
  /\ olderFailures # << >>
  /\ Len(filings) = 2
  /\ Len(registry.recent) = 1
  /\ filings[2] = registry.recent[1]
  /\ filings[1].filingDate > filings[2].filingDate
  /\ \E p \in Positions :
       /\ p[1] > 0
       /\ RowAt(p).accessionNumber = registry.recent[1].accessionNumber
       /\ RowAt(p).filingDate # registry.recent[1].filingDate

\* ------------------------------------------------------ claims on deep mode
\* C21: in deep mode no exhibit is skipped for a per-filing-cap or a
\* total-size-cap reason, and every exhibit that is not junk is downloaded
\* and, unless the download fails, recorded DOWNLOADED and put in the
\* archive, whatever maxEx, maxMb and the bytes already accepted are.
C21_DeepHasNoCaps ==
  deep =>
    /\ skippedByCap = << >>
    /\ \A r \in Rows : ~IsCapReason(r.reason)
    /\ \A a \in Attempts :
         /\ ~IsCapReason(a.reason)
         /\ a.docType \notin JunkTypesDrawn =>
              /\ a.fetched
              /\ a.reason # "download failed" =>
                   /\ a.status = "DOWNLOADED"
                   /\ \E i \in DOMAIN inventoryLines :
                        /\ inventoryLines[i].filing = selected[a.filing]
                        /\ inventoryLines[i].filename = a.filename
                        /\ inventoryLines[i].status = "DOWNLOADED"
                   /\ \E e \in DOMAIN archive :
                        /\ archive[e].folder = "exhibits"
                        /\ archive[e].acc = selected[a.filing].accessionNumber
                        /\ archive[e].file = a.filename

\* deep mode: an exhibit that is neither junk nor high-signal is accepted
\* after maxEx exhibits of the filing and more than maxMb of bytes were
\* accepted
C21_Witness ==
  /\ deep
  /\ \E a \in Attempts :
       /\ a.status = "DOWNLOADED"
       /\ a.docType \in OtherTypesDrawn
       /\ a.countBefore >= maxEx
       /\ a.usedBefore + a.byteLength > maxMb * 1024 * 1024

\* ------------------------------------------- claims on the order of exhibits
\* the tier of a type drawn: 3 high-signal, 1 low-signal, 0 junk
TierDrawn(type) ==
  IF type \in HighSignalTypesDrawn THEN 3 ELSE IF type \in JunkTypesDrawn THEN 0 ELSE 1

\* C22: within one filing the exhibits are considered with all high-signal
\* ones before all low-signal ones and junk after every exhibit that is not
\* junk, and within a tier by ascending parsed reported size; the list that
\* is walked holds every row of the index once.
C22_HighSignalThenSmallerFirst ==
  /\ \A i, j \in DOMAIN attempts :
       i < j /\ attempts[i].filing = attempts[j].filing =>
         /\ TierDrawn(attempts[i].docType) >= TierDrawn(attempts[j].docType)
         /\ TierDrawn(attempts[i].docType) = TierDrawn(attempts[j].docType) =>
              attempts[i].reported <= attempts[j].reported
  /\ pc = "exhibit" =>
       /\ Len(scored) = Len(docsOf[fIdx].docs)
       /\ \A k \in DOMAIN docsOf[fIdx].docs :
            \E m \in DOMAIN scored : scored[m].d = docsOf[fIdx].docs[k]
       /\ \A m \in DOMAIN scored :
            scored[m].sizeBytes = parseSize(scored[m].d.sizeText)

\* three exhibits of one filing considered in the reverse of the order of
\* the index: a smaller high-signal one, a larger high-signal one, a
\* low-signal one
C22_Witness ==
  \E i \in DOMAIN attempts :
    /\ i + 2 \in DOMAIN attempts
    /\ attempts[i].filing = attempts[i + 2].filing
    /\ attempts[i].filename > attempts[i + 1].filename
    /\ attempts[i + 1].filename > attempts[i + 2].filename
    /\ TierDrawn(attempts[i].docType) = 3
    /\ TierDrawn(attempts[i + 1].docType) = 3
    /\ attempts[i].reported < attempts[i + 1].reported
    /\ TierDrawn(attempts[i + 2].docType) = 1

\* -------------------------------------------- claims on the running total
\* C23: the running total of exhibit bytes never decreases in a step of the
\* run: a step that skips an exhibit, before or after its download, or
\* whose download fails, leaves it as it was, and so does every step
\* outside the exhibit loop, the move to the next filing among them.
C23_BytesUsedNeverDecrease ==
  [][ /\ exhibitsBytesUsed' >= exhibitsBytesUsed
      /\ (/\ Len(attempts') = Len(attempts) + 1
          /\ attempts'[Len(attempts')].status = "SKIPPED")
           => exhibitsBytesUsed' = exhibitsBytesUsed
      /\ pc # "exhibit" => exhibitsBytesUsed' = exhibitsBytesUsed ]_vars

\* bytes accepted for one filing are still counted when an exhibit of a
\* later filing is reached, after a download that failed in between
C23_Witness ==
  \E i, j, k \in DOMAIN attempts :
    /\ i < j /\ j < k
    /\ attempts[i].status = "DOWNLOADED"
    /\ attempts[j].reason = "download failed"
    /\ attempts[k].filing > attempts[i].filing
    /\ attempts[k].usedBefore = attempts[i].usedBefore + attempts[i].byteLength
    /\ attempts[k].usedBefore > 0
    /\ exhibitsBytesUsed >= attempts[k].usedBefore

\* ------------------------------------------- claims on the index page parser
\* what the claim asks of a row: a link with a file name, four columns or
\* more, a type that is not empty and not the header text
Qualifies(row) ==
  /\ row.href # << >>
  /\ row.href[Len(row.href)] # ""
  /\ Len(row.cells) >= 4
  /\ cellText(row.cells[4]) \notin { << >>, << "Type" >> }

\* C24: the list returned holds one ExhibitDoc for each row read that has a
\* link with a non-empty file name, at least four columns, and a type
\* that is neither empty nor the header text, in the order of the page and
\* with the fields of the row; every other row is left out, the call
\* always returns, and a page without such a row gives the empty list.
C24_DocsAreQualifyingRows ==
  /\ pc \in { "page", "parsed" }
  /\ pc = "parsed" =>
       LET rows == RowsToParse(indexHtml)
           qualifying == { k \in DOMAIN rows : Qualifies(rows[k]) }
           Rank(k) == Cardinality({ j \in qualifying : j <= k })
       IN  /\ Len(exhibitDocs) = Cardinality(qualifying)
           /\ \A k \in qualifying :
                LET doc == exhibitDocs[Rank(k)]
                    row == rows[k]
                IN  /\ doc.filename = row.href[Len(row.href)]
                    /\ doc.type = cellText(row.cells[4])
                    /\ doc.seq = cellText(row.cells[1])
                    /\ doc.description = cellText(row.cells[2])
                    /\ doc.sizeText = IF Len(row.cells) >= 5 THEN cellText(row.cells[5])
                                                             ELSE << >>

\* a table of two rows: the header text as a type is left out, the row
\* after it, whose type needs trimming, is returned
C24_Witness ==
  /\ pc = "parsed"
  /\ Len(RowsToParse(indexHtml)) = 2
  /\ Len(exhibitDocs) = 1
  /\ Len(RowsToParse(indexHtml)[1].cells) >= 4
  /\ cellText(RowsToParse(indexHtml)[1].cells[4]) = << "Type" >>
  /\ exhibitDocs[1].type = << "EX-99", " ", "PRESS" >>

\* ------------------------------------------------ claims on the ticker cache
\* C25: a call sends a request for the mapping table exactly when, as it
\* begins, no table is cached or the cached one is 24 hours old or older;
\* otherwise it ends at once with the answer of the cached table. Calls
\* that begin while another waits for its response and find the cache stale
\* each send their own request.
C25_FetchIffStale ==
  \A c \in DOMAIN calls :
    LET call == calls[c]
        stale == ~call.sawTable.loaded \/ call.now - call.sawLast >= TicksPerDay
    IN  /\ call.fetched <=> stale
        /\ ~call.fetched =>
             /\ call.pc \in { "returned", "thrown" }
             /\ call.pc = "returned" <=>
                  \E x \in call.sawTable.entries :
                    toUpperCase(x.ticker) = toUpperCase(call.ticker) /\ x.cik_str = call.cik
        /\ call.pc = "awaiting" => call.fetched

\* two calls waiting for their responses at once, the second having found
\* a table exactly 24 hours old
C25_Witness ==
  \E c, d \in DOMAIN calls :
    /\ c < d
    /\ calls[c].pc = "awaiting" /\ calls[d].pc = "awaiting"
    /\ calls[c].fetched /\ calls[d].fetched
    /\ calls[d].sawTable.loaded
    /\ calls[d].now - calls[d].sawLast = TicksPerDay

\* C27 (as claimed): lastTickerFetch never decreases, whatever the
\* interleaving of the calls.
C27_Original == [][lastTickerFetch' >= lastTickerFetch]_vars

\* --------------------------------------------- claims on FILINGS_MISSING.txt
\* the filings of the history dated on or before the as-of date of the
\* request: a second history that agrees with the first on all of them
OnOrBeforeAsOf(fs) ==
  SelectSeq(fs, LAMBDA f : f.filingDate <= asOf.day)

\* C28 (as claimed): for a request with an as-of date, FILINGS_MISSING.txt
\* depends only on the filings dated on or before that date: the history
\* retrieved and the history without its filings after that date give the
\* same file.
C28_Original ==
  (/\ asOf.kind = "date"
   /\ \E e \in DOMAIN archive : archive[e] = ReportEntry("FILINGS_MISSING.txt"))
    => FilingsMissing(filings) = FilingsMissing(OnOrBeforeAsOf(filings))

\* ------------------------------------------- claims on the flow of requests
\* C26: during one pack build at most one outbound request is in flight,
\* it is the request of the call the handler is waiting for, and none is in
\* flight during a backoff wait or when the handler goes on to its next
\* statement.
C26_OneRequestInFlight ==
  /\ Cardinality(inFlight) <= 1
  /\ \A r \in inFlight : pc = "sent" /\ r = Request_(stage, tryIdx)
  /\ pc = "sent" => inFlight # {}

\* the third attempt for an exhibit of the second filing is in flight
C26_Witness ==
  /\ pc = "sent"
  /\ stage.at = "exhibit" /\ stage.f = 2
  /\ tryIdx = 2
  /\ inFlight = { Request_(stage, 2) }

====
